---------------------------- MODULE Spec2Model ----------------------------
(***************************************************************************)
(* The ingestion pipeline of spotify-wrapped: scripts/parse_spotify_data.py*)
(* and scripts/spotify_data_model.py.  One run of main() reads the         *)
(* configured JSON export files, parses every entry into a                 *)
(* SpotifyStreamingRecord, removes duplicates, builds the DataFrame        *)
(* (timestamps resolved, text normalised, rows sorted) and writes it to    *)
(* the parquet file, the CSV file and the SQLite database.                 *)
(*                                                                         *)
(* The queries made of the parquet file: the callbacks of dashboard/app.py *)
(* on the table load_data() reads from it, and the reports                 *)
(* scripts/top_artists_script.py, scripts/song_stats.py,                   *)
(* scripts/artist_stats.py and scripts/query_examples.py.                  *)
(*                                                                         *)
(* Specifications: Spec (runs of main), SpecFaults (runs in which a write  *)
(* may fail), SpecKey (get_unique_key), SpecDedup (deduplicate_records),   *)
(* SpecNorm (normalize_text), SpecFromDict (from_dict), SpecQuery (one     *)
(* top-artists query or search), SpecReports (the dashboard started on a   *)
(* store of records of every content type, and its callbacks in any        *)
(* sequence).                                                              *)
(*                                                                         *)
(* Python values are modelled as follows.                                  *)
(*   - an opaque string (a timestamp as exported, a URI) is a TLA+ string; *)
(*     Python's None in such a field is the value None below;              *)
(*   - a free-text field is NoneText (Python's None) or <<s>> with s the   *)
(*     sequence of the text's code points;                                 *)
(*   - a resolved timestamp (pandas Timestamp) is a natural number, the    *)
(*     instant's rank on the time line, and NaT is the value NaT;          *)
(*   - a JSON entry is [isObject, val]: whether it is a JSON object, and   *)
(*     the object as a function from the keys it holds to their values.    *)
(* A parsed record and a DataFrame row carry one field the code does not   *)
(* have, src = <<file, position>>: the place of the raw entry in the       *)
(* input.  No operation reads it; the properties use it to speak of        *)
(* encounter order.                                                        *)
(***************************************************************************)
EXTENDS Integers, Sequences, FiniteSets, TLC

VARIABLES
    files,          \* the configured input files on disk (fixed during a behaviour)
    parquet,        \* spotify_streaming_history.parquet
    csv,            \* spotify_streaming_history.csv
    sqlite,         \* spotify_streaming_history.db
    pc,             \* the position of main()
    json_files,     \* main's json_files: the indices of the files still listed
    loaded,         \* how many entries of json_files the load loop has processed
    all_records,    \* main's all_records
    unique_records, \* main's unique_records
    df,             \* main's df
    warnings,       \* number of "Warning: Failed to parse record" lines printed
    error,          \* the error the run ended with ("" for none)
    exitCode,       \* << >> while the process runs, <<c>> once it exited with code c
    sortMemo,       \* what sort_values returned for the frame it was given
    firstStore,     \* << >>, or <<rows>>: the rows the first completed run persisted
    rec,            \* the record get_unique_key is applied to (SpecKey)
    key,            \* the key it returned (SpecKey)
    given,          \* the value normalize_text is applied to (SpecNorm)
    normalized,     \* << >>, or <<v>>: v is what normalize_text(given) returned
    twice,          \* << >>, or <<v>>: v is what normalize_text returned for that
    mapping,        \* the raw entry from_dict is applied to (SpecFromDict)
    parsed,         \* << >>, or <<[raised, record]>>: how from_dict(mapping) ended
    reply,          \* << >>, or <<r>>: the query made of the store and what it returned
    table,          \* << >>, or <<t>>: t is the dashboard's table (the module's df)
    built           \* the number of the run under way, and for each of the three
                    \* files the number of the run that last opened it for writing

vars == <<files, parquet, csv, sqlite, pc, json_files, loaded, all_records,
          unique_records, df, warnings, error, exitCode, sortMemo, firstStore,
          rec, key, given, normalized, twice, mapping, parsed, reply, table, built>>

\* The variables of normalize_text on its own.
textVars == <<given, normalized, twice>>

\* The variables of from_dict on its own.
dictVars == <<mapping, parsed>>

-----------------------------------------------------------------------------
(* Bounds *)

\* The total number of raw entries in the input files.
MaxEntries == 2

\* The length of the strings normalize_text is given.
MaxLen == 2

\* The number of rows of the store the queries are made of.
MaxRows == 2

\* The records of a store the dashboard is started on.
MaxPlays == 2

-----------------------------------------------------------------------------
(* Values *)

None == "None"
NoneText == << >>
Text(s) == <<s>>

\* pandas' NaT (an unset timestamp).
NaT == -1

\* The code points normalize_text replaces, and what it writes for them.
RightSingleQuote == 8217
LeftSingleQuote == 8216
LeftDoubleQuote == 8220
RightDoubleQuote == 8221
DoubleLow9Quote == 8222
DoubleHighReversed9Quote == 8223
Apostrophe == 39
QuotationMark == 34

\* Timestamps as the export files spell them.  TsNew and TsNewOffset spell the
\* same instant (UTC as "Z" and as "+00:00"); TsBad is no timestamp at all.
TsOld == "2023-06-01T00:00:00Z"
TsNew == "2024-01-01T00:00:00Z"
TsNewOffset == "2024-01-01T00:00:00+00:00"
TsBad == "not-a-date"

TrackA == "spotify:track:a"
EpisodeE == "spotify:episode:e"
BookB == "spotify:audiobook:b"

-----------------------------------------------------------------------------
(* scripts/spotify_data_model.py *)

\* The keys of a raw entry that the model follows.  from_dict reads 11 more
\* (platform, conn_country, ...), each by data.get(k) like the ones below, and
\* no operation of the pipeline looks at their values.
Keys == {"ts", "ms_played", "spotify_track_uri", "spotify_episode_uri",
         "audiobook_uri", "master_metadata_track_name",
         "master_metadata_album_artist_name", "master_metadata_album_album_name",
         "episode_name", "episode_show_name", "audiobook_title",
         "audiobook_chapter_title"}

\* dict.get(k, default): a missing key yields the default; a key that is
\* present yields its value, also when that value is null.  data.val is the
\* JSON object, a function from the keys it holds to their values.
Get(data, k, default) == IF k \in DOMAIN data.val THEN data.val[k] ELSE default

\* from_dict as it would be if the track URI, like ts, had the empty string
\* for its default.
from_dict_empty_uri(data, src) ==
    [ts |-> Get(data, "ts", ""),
     ms_played |-> Get(data, "ms_played", 0),
     master_metadata_track_name |-> Get(data, "master_metadata_track_name", NoneText),
     master_metadata_album_artist_name |->
         Get(data, "master_metadata_album_artist_name", NoneText),
     master_metadata_album_album_name |->
         Get(data, "master_metadata_album_album_name", NoneText),
     episode_name |-> Get(data, "episode_name", NoneText),
     episode_show_name |-> Get(data, "episode_show_name", NoneText),
     audiobook_title |-> Get(data, "audiobook_title", NoneText),
     audiobook_chapter_title |-> Get(data, "audiobook_chapter_title", NoneText),
     spotify_track_uri |-> Get(data, "spotify_track_uri", ""),
     spotify_episode_uri |-> Get(data, "spotify_episode_uri", None),
     audiobook_uri |-> Get(data, "audiobook_uri", None),
     src |-> src]

\* SpotifyStreamingRecord.from_dict.  Whether it raises is FromDictRaises.
from_dict(data, src) ==
    [ts |-> Get(data, "ts", ""),
     ms_played |-> Get(data, "ms_played", 0),
     master_metadata_track_name |-> Get(data, "master_metadata_track_name", NoneText),
     master_metadata_album_artist_name |->
         Get(data, "master_metadata_album_artist_name", NoneText),
     master_metadata_album_album_name |->
         Get(data, "master_metadata_album_album_name", NoneText),
     episode_name |-> Get(data, "episode_name", NoneText),
     episode_show_name |-> Get(data, "episode_show_name", NoneText),
     audiobook_title |-> Get(data, "audiobook_title", NoneText),
     audiobook_chapter_title |-> Get(data, "audiobook_chapter_title", NoneText),
     spotify_track_uri |-> Get(data, "spotify_track_uri", None),
     spotify_episode_uri |-> Get(data, "spotify_episode_uri", None),
     audiobook_uri |-> Get(data, "audiobook_uri", None),
     src |-> src]

\* data.get on an entry that is no JSON object (a string, a number, a list,
\* null) raises AttributeError.
FromDictRaises(data) == ~data.isObject

\* SpotifyStreamingRecord.to_dict.
to_dict(r) ==
    [ts |-> r.ts,
     ms_played |-> r.ms_played,
     master_metadata_track_name |-> r.master_metadata_track_name,
     master_metadata_album_artist_name |-> r.master_metadata_album_artist_name,
     master_metadata_album_album_name |-> r.master_metadata_album_album_name,
     episode_name |-> r.episode_name,
     episode_show_name |-> r.episode_show_name,
     audiobook_title |-> r.audiobook_title,
     audiobook_chapter_title |-> r.audiobook_chapter_title,
     spotify_track_uri |-> r.spotify_track_uri,
     spotify_episode_uri |-> r.spotify_episode_uri,
     audiobook_uri |-> r.audiobook_uri,
     src |-> r.src]

\* Python's truth value of an Optional[str]: None and "" are false.
Truthy(s) == s # None /\ s # ""

\* Python's `a or b`: a when a is true, else b.
PyOr(a, b) == IF Truthy(a) THEN a ELSE b

\* SpotifyStreamingRecord.get_unique_key.
get_unique_key(r) ==
    LET content_uri == PyOr(PyOr(r.spotify_track_uri, r.spotify_episode_uri),
                            r.audiobook_uri)
    IN  <<r.ts, content_uri, r.ms_played>>

-----------------------------------------------------------------------------
(* scripts/parse_spotify_data.py: the pure parts *)

\* Replacement as it would be if the entry for U+2018 named U+2019 (another
\* key of the dictionary) as its replacement.
ReplacementOntoKey(c) ==
    CASE c = RightSingleQuote -> Apostrophe
      [] c = LeftSingleQuote -> RightSingleQuote
      [] c = LeftDoubleQuote -> QuotationMark
      [] c = RightDoubleQuote -> QuotationMark
      [] c = DoubleLow9Quote -> QuotationMark
      [] c = DoubleHighReversed9Quote -> QuotationMark
      [] OTHER -> c

\* Replacement as it would be if the dictionary had no entry for U+201E.
ReplacementWithoutLow9(c) ==
    CASE c = RightSingleQuote -> Apostrophe
      [] c = LeftSingleQuote -> Apostrophe
      [] c = LeftDoubleQuote -> QuotationMark
      [] c = RightDoubleQuote -> QuotationMark
      [] c = DoubleHighReversed9Quote -> QuotationMark
      [] OTHER -> c

\* The dictionary `replacements` of normalize_text, applied to one code point.
Replacement(c) ==
    CASE c = RightSingleQuote -> Apostrophe
      [] c = LeftSingleQuote -> Apostrophe
      [] c = LeftDoubleQuote -> QuotationMark
      [] c = RightDoubleQuote -> QuotationMark
      [] c = DoubleLow9Quote -> QuotationMark
      [] c = DoubleHighReversed9Quote -> QuotationMark
      [] OTHER -> c

\* normalize_text: None is returned as it is; in a string every occurrence of
\* a key of `replacements` is replaced.  Each key and each replacement is one
\* code point and no replacement is a key, so the six str.replace calls
\* together map every code point by Replacement.
normalize_text(text) ==
    IF text = NoneText
    THEN text
    ELSE Text([i \in DOMAIN text[1] |-> Replacement(text[1][i])])

\* What pd.to_datetime makes of one value of the ts column: None and the empty
\* string become NaT, a timestamp becomes its instant (here the instant's rank:
\* TsNew and TsNewOffset are the same instant).  TsBad makes it raise.
ToDatetimeRaises(ts) == ts = TsBad

to_datetime(ts) ==
    CASE ts = None -> NaT
      [] ts = "" -> NaT
      [] ts = TsOld -> 1
      [] ts = TsNew -> 2
      [] ts = TsNewOffset -> 2
      [] OTHER -> NaT

\* parse_records: the records of the entries from_dict accepts, in the order
\* of the array; f is the file's index, used for src only.
RECURSIVE ParseFrom(_, _, _)
ParseFrom(json_data, f, i) ==
    IF i > Len(json_data)
    THEN << >>
    ELSE IF FromDictRaises(json_data[i])
         THEN ParseFrom(json_data, f, i + 1)
         ELSE <<from_dict(json_data[i], <<f, i>>)>> \o ParseFrom(json_data, f, i + 1)

parse_records(json_data, f) == ParseFrom(json_data, f, 1)

\* The number of warnings parse_records prints: one per entry that raised.
ParseWarnings(json_data) ==
    Cardinality({i \in DOMAIN json_data : FromDictRaises(json_data[i])})

\* The loop body of deduplicate_records (lines 69-75) from record i on, with
\* the keys seen and the records kept so far.
RECURSIVE DedupFrom(_, _, _, _)
DedupFrom(records, i, seen_keys, unique) ==
    IF i > Len(records)
    THEN unique
    ELSE LET k == get_unique_key(records[i])
         IN  IF k \notin seen_keys
             THEN DedupFrom(records, i + 1, seen_keys \cup {k},
                            Append(unique, records[i]))
             ELSE DedupFrom(records, i + 1, seen_keys, unique)

\* deduplicate_records as it would be if a later record replaced the one kept
\* for its key: the last record of each key survives.
DedupKeepLast(records) ==
    LET kept == {i \in DOMAIN records :
                    \A j \in DOMAIN records :
                        j > i => get_unique_key(records[j]) # get_unique_key(records[i])}
        F[i \in 0..Len(records)] ==
            IF i = 0 THEN << >>
            ELSE IF i \in kept THEN Append(F[i - 1], records[i]) ELSE F[i - 1]
    IN  F[Len(records)]

deduplicate_records(records) == DedupFrom(records, 1, {}, << >>)

\* The order sort_values('ts') puts two timestamps in: ascending, NaT last
\* (na_position='last').
TsInOrder(a, b) == b = NaT \/ (a # NaT /\ a <= b)

\* Every outcome df.sort_values('ts').reset_index(drop=True) can have: the
\* rows ordered by ts.  The default kind='quicksort' is not a stable sort, so
\* rows with equal ts may come out in any order.
sort_values(rows) ==
    LET n == Len(rows)
        Perms == {p \in [1..n -> 1..n] : \A i, j \in 1..n : i # j => p[i] # p[j]}
    IN  {[i \in 1..n |-> rows[p[i]]] :
            p \in {q \in Perms :
                      \A i \in 1..n : i < n => TsInOrder(rows[q[i]].ts, rows[q[i + 1]].ts)}}

\* What sort_values can return for `frame` when `memo` is << >> or what it
\* was given and returned before: the sort is a function of the frame (the
\* same frame always comes out in the same order), though which of the orders
\* of rows with equal ts it returns is not specified.
SortOutcomes(memo, frame) ==
    IF memo # << >> /\ memo[1] = frame
    THEN {memo[2]}
    ELSE sort_values(frame)

\* The list text_columns of create_dataframe (lines 91-99).
text_columns ==
    {"master_metadata_track_name", "master_metadata_album_artist_name",
     "master_metadata_album_album_name", "episode_name", "episode_show_name",
     "audiobook_title", "audiobook_chapter_title"}

\* Frame as it would be if text_columns left out the show name.
FrameWithoutShowName(records) ==
    [i \in DOMAIN records |->
        [to_dict(records[i]) EXCEPT
            !.ts = to_datetime(@),
            !.master_metadata_track_name = normalize_text(@),
            !.master_metadata_album_artist_name = normalize_text(@),
            !.master_metadata_album_album_name = normalize_text(@),
            !.episode_name = normalize_text(@),
            !.audiobook_title = normalize_text(@),
            !.audiobook_chapter_title = normalize_text(@)]]

\* The frame of create_dataframe before it is sorted (lines 84-104): one row
\* per record, ts resolved by pd.to_datetime, each column of text_columns
\* normalised.
Frame(records) ==
    [i \in DOMAIN records |->
        [to_dict(records[i]) EXCEPT
            !.ts = to_datetime(@),
            !.master_metadata_track_name = normalize_text(@),
            !.master_metadata_album_artist_name = normalize_text(@),
            !.master_metadata_album_album_name = normalize_text(@),
            !.episode_name = normalize_text(@),
            !.episode_show_name = normalize_text(@),
            !.audiobook_title = normalize_text(@),
            !.audiobook_chapter_title = normalize_text(@)]]

\* create_dataframe raises KeyError on df['ts'] when there is no record (a
\* DataFrame built from an empty list has no column), and ValueError when
\* pd.to_datetime meets a string it cannot resolve.
CreateDataframeError(records) ==
    IF records = << >>
    THEN "KeyError"
    ELSE IF \E i \in DOMAIN records : ToDatetimeRaises(records[i].ts)
         THEN "ValueError"
         ELSE ""

-----------------------------------------------------------------------------
(* The files on disk *)

AbsentFile == [state |-> "absent", rows |-> << >>]
PartialFile == [state |-> "partial", rows |-> << >>]
CompleteFile(rows) == [state |-> "complete", rows |-> rows]

\* Opened as it would be if the target were opened for appending (mode='a',
\* if_exists='append'): the rows it held stay.
OpenedForAppend(old) == [state |-> "partial", rows |-> old.rows]

\* A file that to_parquet, to_csv or to_sql(if_exists='replace') has opened
\* for writing over `old`: the target itself, emptied.
Opened(old) == PartialFile

\* The opened file `cur` once the rows of `frame` are written to it and it is
\* closed.
Written(cur, frame) == CompleteFile(cur.rows \o frame)

-----------------------------------------------------------------------------
(* The inputs *)

Obj(v) == [isObject |-> TRUE, val |-> v]

\* A song: the title holds a right single quotation mark, the artist's name
\* and the album's name hold double quotation marks.
Song ==
    Obj([ts |-> TsNew, ms_played |-> 1000,
         master_metadata_track_name |-> Text(<<100, RightSingleQuote, 111>>),
         master_metadata_album_artist_name |->
             Text(<<LeftDoubleQuote, 120, RightDoubleQuote>>),
         master_metadata_album_album_name |-> Text(<<DoubleLow9Quote, 121>>),
         spotify_track_uri |-> TrackA, spotify_episode_uri |-> None,
         audiobook_uri |-> None])

\* The same play exported once more, under another title.
SongAgain ==
    Obj([ts |-> TsNew, ms_played |-> 1000,
         master_metadata_track_name |-> Text(<<101>>),
         spotify_track_uri |-> TrackA, spotify_episode_uri |-> None,
         audiobook_uri |-> None])

\* The same play with its timestamp spelled with a numeric UTC offset.
SongOffset ==
    Obj([ts |-> TsNewOffset, ms_played |-> 1000,
         master_metadata_track_name |-> Text(<<100, RightSingleQuote, 111>>),
         spotify_track_uri |-> TrackA, spotify_episode_uri |-> None,
         audiobook_uri |-> None])

\* A podcast episode logged at the same instant as Song.
Podcast ==
    Obj([ts |-> TsNew, ms_played |-> 1000,
         master_metadata_track_name |-> NoneText,
         episode_name |-> Text(<<LeftSingleQuote, 112>>),
         episode_show_name |-> Text(<<113, DoubleHighReversed9Quote>>),
         spotify_track_uri |-> None, spotify_episode_uri |-> EpisodeE,
         audiobook_uri |-> None])

\* An earlier entry with no URI and no title key at all.
AdBreak == Obj([ts |-> TsOld, ms_played |-> 0])

\* An object whose timestamp cannot be resolved.
BadTimestamp ==
    Obj([ts |-> TsBad, ms_played |-> 1000,
         master_metadata_track_name |-> Text(<<102>>),
         spotify_track_uri |-> TrackA, spotify_episode_uri |-> None,
         audiobook_uri |-> None])

\* An object without a ts key.
NoTimestamp ==
    Obj([ms_played |-> 500,
         master_metadata_track_name |-> Text(<<103>>),
         audiobook_title |-> Text(<<RightDoubleQuote>>),
         audiobook_chapter_title |-> Text(<<DoubleLow9Quote, RightSingleQuote>>),
         spotify_track_uri |-> TrackA])

\* An entry that is no JSON object (a string in the array).
NotAnObject == [isObject |-> FALSE, val |-> [string |-> "oops"]]

RawEntries == {Song, SongAgain, SongOffset, Podcast, AdBreak, BadTimestamp,
               NoTimestamp, NotAnObject}

\* The three paths of main's json_files (lines 117-121), by index.
ConfiguredFiles == 1..3

MissingFile == [exists |-> FALSE, valid |-> FALSE, data |-> << >>]
InvalidFile == [exists |-> TRUE, valid |-> FALSE, data |-> << >>]
ArrayFile(data) == [exists |-> TRUE, valid |-> TRUE, data |-> data]

\* What a file that holds the entries seg can be: with entries, a JSON array of
\* them; without, a missing file, a file json.load rejects or an empty array.
FileOf(seg) ==
    IF seg = << >>
    THEN {MissingFile, InvalidFile, ArrayFile(<< >>)}
    ELSE {ArrayFile(seg)}

Entries(E) == UNION {[1..n -> E] : n \in 0..MaxEntries}

\* The text fields, other than the track name, of a record that has none.
NoOtherTexts ==
    [master_metadata_album_artist_name |-> NoneText,
     master_metadata_album_album_name |-> NoneText,
     episode_name |-> NoneText,
     episode_show_name |-> NoneText,
     audiobook_title |-> NoneText,
     audiobook_chapter_title |-> NoneText]

\* The store an earlier ingestion of other files left behind.
PrevRows ==
    <<[ts |-> 1, ms_played |-> 250, master_metadata_track_name |-> NoneText,
       spotify_track_uri |-> None, spotify_episode_uri |-> EpisodeE,
       audiobook_uri |-> None, src |-> <<0, 1>>] @@ NoOtherTexts>>

\* A record for the variables rec of the pipeline, which never reads it.
NoRecord ==
    [ts |-> "", ms_played |-> 0, master_metadata_track_name |-> NoneText,
     spotify_track_uri |-> None, spotify_episode_uri |-> None,
     audiobook_uri |-> None, src |-> <<0, 0>>] @@ NoOtherTexts

-----------------------------------------------------------------------------
(* main() *)

\* normalize_text is not being followed on its own.
NoText ==
    /\ given = NoneText
    /\ normalized = << >>
    /\ twice = << >>

\* from_dict is not being followed on its own.
NoDict ==
    /\ mapping = Obj(<< >>)
    /\ parsed = << >>

\* No query has been made.
NoQuery == reply = << >> /\ table = << >>

\* The first run: the three files are as an earlier ingestion left them.
FirstRun == [run |-> 1, parquet |-> 0, csv |-> 0, sqlite |-> 0]

\* The state main starts a run in, whatever is on disk.
Fresh ==
    /\ pc = "start"
    /\ json_files = << >>
    /\ loaded = 0
    /\ all_records = << >>
    /\ unique_records = << >>
    /\ df = << >>
    /\ warnings = 0
    /\ error = ""
    /\ exitCode = << >>
    /\ built = FirstRun

\* The states a first run can start in, with input files made of entries of E.
Start(E) ==
    /\ \E all \in Entries(E) : \E a \in 0..Len(all) : \E b \in a..Len(all) :
          \E f1 \in FileOf(SubSeq(all, 1, a)) :
          \E f2 \in FileOf(SubSeq(all, a + 1, b)) :
          \E f3 \in FileOf(SubSeq(all, b + 1, Len(all))) :
              files = <<f1, f2, f3>>
    /\ \E old \in {AbsentFile, CompleteFile(PrevRows)} :
          /\ parquet = old
          /\ csv = old
          /\ sqlite = old
    /\ Fresh
    /\ sortMemo = << >>
    /\ firstStore = << >>
    /\ rec = NoRecord
    /\ key = << >>
    /\ NoText
    /\ NoDict
    /\ NoQuery

Init == Start(RawEntries)

\* What main leaves when it returns or an exception ends it: its locals are
\* gone, the process has exited with code c.
Exit(where, e, c) ==
    /\ pc' = where
    /\ error' = e
    /\ exitCode' = <<c>>
    /\ json_files' = << >>
    /\ loaded' = 0
    /\ all_records' = << >>
    /\ unique_records' = << >>
    /\ df' = << >>

\* An uncaught exception: the interpreter prints the traceback and exits 1.
Raise(e) == Exit("crashed", e, 1)

\* The indices of the configured files that exist, in the order of the list
\* (lines 124-127).
RECURSIVE ExistingFrom(_, _)
ExistingFrom(fs, f) ==
    IF f > Len(fs)
    THEN << >>
    ELSE (IF fs[f].exists THEN <<f>> ELSE << >>) \o ExistingFrom(fs, f + 1)

\* CheckFiles as it would be if main prepared its output before it looked for
\* its input: the parquet file is opened for writing, then the list is checked.
CheckFilesAfterOpen ==
    /\ pc = "start"
    /\ parquet' = Opened(parquet)
    /\ LET existing == ExistingFrom(files, 1)
       IN  IF existing = << >>
           THEN Exit("done", "No JSON files found!", 0)
           ELSE /\ json_files' = existing
                /\ pc' = "load"
                /\ UNCHANGED <<loaded, all_records, unique_records, df, error, exitCode>>
    /\ UNCHANGED <<files, csv, sqlite, warnings, sortMemo, firstStore, rec, key, textVars, dictVars, reply, table, built>>

\* Lines 123-131: drop the missing files from the list; with none left, print
\* "Error: No JSON files found!" and return.  A return from main ends the
\* script normally, exit code 0.
CheckFiles ==
    /\ pc = "start"
    /\ LET existing == ExistingFrom(files, 1)
       IN  IF existing = << >>
           THEN Exit("done", "No JSON files found!", 0)
           ELSE /\ json_files' = existing
                /\ pc' = "load"
                /\ UNCHANGED <<loaded, all_records, unique_records, df, error, exitCode>>
    /\ UNCHANGED <<files, parquet, csv, sqlite, warnings, sortMemo, firstStore,
                   rec, key, textVars, dictVars, reply, table, built>>

\* One iteration of the loop of lines 135-138: load_json_file, parse_records,
\* all_records.extend.  json.load raises on a file that is no JSON.
LoadFile ==
    /\ pc = "load"
    /\ loaded < Len(json_files)
    /\ LET f == json_files[loaded + 1]
       IN  IF ~files[f].valid
           THEN Raise("JSONDecodeError") /\ UNCHANGED warnings
           ELSE /\ all_records' = all_records \o parse_records(files[f].data, f)
                /\ warnings' = warnings + ParseWarnings(files[f].data)
                /\ loaded' = loaded + 1
                /\ pc' = IF loaded + 1 = Len(json_files) THEN "dedup" ELSE "load"
                /\ UNCHANGED <<json_files, unique_records, df, error, exitCode>>
    /\ UNCHANGED <<files, parquet, csv, sqlite, sortMemo, firstStore,
                   rec, key, textVars, dictVars, reply, table, built>>

\* Line 144.
Deduplicate ==
    /\ pc = "dedup"
    /\ unique_records' = deduplicate_records(all_records)
    /\ pc' = "frame"
    /\ UNCHANGED <<files, parquet, csv, sqlite, json_files, loaded, all_records, df,
                   warnings, error, exitCode, sortMemo, firstStore,
                   rec, key, textVars, dictVars, reply, table, built>>

\* Line 148, create_dataframe; sortMemo records what the sort was given and
\* returned.
CreateDataframe ==
    /\ pc = "frame"
    /\ LET e == CreateDataframeError(unique_records)
           frame == Frame(unique_records)
       IN  IF e # ""
           THEN Raise(e) /\ UNCHANGED sortMemo
           ELSE /\ \E sorted \in SortOutcomes(sortMemo, frame) :
                     /\ df' = sorted
                     /\ sortMemo' = <<frame, sorted>>
                /\ pc' = "parquet"
                /\ UNCHANGED <<json_files, loaded, all_records, unique_records, error,
                               exitCode>>
    /\ UNCHANGED <<files, parquet, csv, sqlite, warnings, firstStore,
                   rec, key, textVars, dictVars, reply, table, built>>

\* The run numbers of `b` counted from the oldest one that still matters:
\* each number replaced by how many distinct smaller ones there are.
Ranks(b) ==
    [k \in DOMAIN b |-> Cardinality({b[j] : j \in DOMAIN b} \cap 0..(b[k] - 1))]

\* File f is opened for writing by the run under way.
Rebuilt(f) == Ranks([built EXCEPT ![f] = built.run])

\* Line 152, df.to_parquet(parquet_path): the writer opens the target path
\* itself, which truncates it, ...
OpenParquet ==
    /\ pc = "parquet"
    /\ parquet' = Opened(parquet)
    /\ built' = Rebuilt("parquet")
    /\ pc' = "parquet_open"
    /\ UNCHANGED <<files, csv, sqlite, json_files, loaded, all_records, unique_records,
                   df, warnings, error, exitCode, sortMemo, firstStore,
                   rec, key, textVars, dictVars, reply, table>>

\* ... writes the rows and closes it, ...
FinishParquet ==
    /\ pc = "parquet_open"
    /\ parquet' = Written(parquet, df)
    /\ pc' = "csv"
    /\ UNCHANGED <<files, csv, sqlite, json_files, loaded, all_records, unique_records,
                   df, warnings, error, exitCode, sortMemo, firstStore,
                   rec, key, textVars, dictVars, reply, table, built>>

\* ... or fails on the way (the disk is full, the process is killed).
FailParquet ==
    /\ pc = "parquet_open"
    /\ Raise("OSError")
    /\ UNCHANGED <<files, parquet, csv, sqlite, warnings, sortMemo, firstStore,
                   rec, key, textVars, dictVars, reply, table, built>>

\* The CSV file opened before the parquet file is written.
OpenCsvBeforeParquet ==
    /\ pc = "parquet"
    /\ csv' = Opened(csv)
    /\ built' = Rebuilt("csv")
    /\ pc' = "csv_open"
    /\ UNCHANGED <<files, parquet, sqlite, json_files, loaded, all_records,
                   unique_records, df, warnings, error, exitCode, sortMemo, firstStore,
                   rec, key, textVars, dictVars, reply, table>>

\* Line 157, df.to_csv(csv_path), in the same three steps.
OpenCsv ==
    /\ pc = "csv"
    /\ csv' = Opened(csv)
    /\ built' = Rebuilt("csv")
    /\ pc' = "csv_open"
    /\ UNCHANGED <<files, parquet, sqlite, json_files, loaded, all_records,
                   unique_records, df, warnings, error, exitCode, sortMemo, firstStore,
                   rec, key, textVars, dictVars, reply, table>>

FinishCsv ==
    /\ pc = "csv_open"
    /\ csv' = Written(csv, df)
    /\ pc' = "sqlite"
    /\ UNCHANGED <<files, parquet, sqlite, json_files, loaded, all_records,
                   unique_records, df, warnings, error, exitCode, sortMemo, firstStore,
                   rec, key, textVars, dictVars, reply, table, built>>

FailCsv ==
    /\ pc = "csv_open"
    /\ Raise("OSError")
    /\ UNCHANGED <<files, parquet, csv, sqlite, warnings, sortMemo, firstStore,
                   rec, key, textVars, dictVars, reply, table, built>>

\* Lines 163-165, df.to_sql('streaming_history', conn, if_exists='replace'):
\* the table is dropped, ...
OpenSqlite ==
    /\ pc = "sqlite"
    /\ sqlite' = Opened(sqlite)
    /\ built' = Rebuilt("sqlite")
    /\ pc' = "sqlite_open"
    /\ UNCHANGED <<files, parquet, csv, json_files, loaded, all_records,
                   unique_records, df, warnings, error, exitCode, sortMemo, firstStore,
                   rec, key, textVars, dictVars, reply, table>>

\* ... created again and filled; lines 168-198 then print the summary and
\* main returns: exit code 0.
FinishSqlite ==
    /\ pc = "sqlite_open"
    /\ sqlite' = Written(sqlite, df)
    /\ Exit("done", "", 0)
    /\ firstStore' = IF firstStore = << >> THEN <<parquet.rows>> ELSE firstStore
    /\ UNCHANGED <<files, parquet, csv, warnings, sortMemo, rec, key, textVars, dictVars, reply, table, built>>

FailSqlite ==
    /\ pc = "sqlite_open"
    /\ Raise("OSError")
    /\ UNCHANGED <<files, parquet, csv, sqlite, warnings, sortMemo, firstStore,
                   rec, key, textVars, dictVars, reply, table, built>>

\* The script is run again on the same input files.
RunAgain ==
    /\ pc \in {"done", "crashed"}
    /\ pc' = "start"
    /\ error' = ""
    /\ exitCode' = << >>
    /\ warnings' = 0
    /\ built' = Ranks([built EXCEPT !.run = @ + 1])
    /\ UNCHANGED <<files, parquet, csv, sqlite, json_files, loaded, all_records,
                   unique_records, df, sortMemo, firstStore, rec, key, textVars,
                   dictVars, reply, table>>

\* A run in which every write succeeds.
Next ==
    \/ CheckFiles
    \/ LoadFile
    \/ Deduplicate
    \/ CreateDataframe
    \/ OpenParquet
    \/ FinishParquet
    \/ OpenCsv
    \/ FinishCsv
    \/ OpenSqlite
    \/ FinishSqlite
    \/ RunAgain

Spec == Init /\ [][Next]_vars

\* Runs in which a write may fail, on input files of songs and podcasts.
InitFaults == Start({Song, Podcast})

NextFaults ==
    \/ Next
    \/ FailParquet
    \/ FailCsv
    \/ FailSqlite

SpecFaults == InitFaults /\ [][NextFaults]_vars

-----------------------------------------------------------------------------
(* get_unique_key on its own *)

\* The values a URI field is given: null, the empty string, a URI.
UriValues(uri) == {None, "", uri}

KeyRecords ==
    {r @@ NoOtherTexts :
        r \in [ts : {TsOld, TsNew}, ms_played : {0, 1000},
               master_metadata_track_name : {NoneText},
               spotify_track_uri : UriValues(TrackA),
               spotify_episode_uri : UriValues(EpisodeE),
               audiobook_uri : UriValues(BookB),
               src : {<<1, 1>>}]}

InitKey ==
    /\ rec \in KeyRecords
    /\ key = << >>
    /\ files = <<MissingFile, MissingFile, MissingFile>>
    /\ parquet = AbsentFile
    /\ csv = AbsentFile
    /\ sqlite = AbsentFile
    /\ Fresh
    /\ sortMemo = << >>
    /\ firstStore = << >>
    /\ NoText
    /\ NoDict
    /\ NoQuery

\* record.get_unique_key() (line 70 of parse_spotify_data.py calls it).
ComputeKey ==
    /\ key = << >>
    /\ key' = get_unique_key(rec)
    /\ UNCHANGED <<files, parquet, csv, sqlite, pc, json_files, loaded, all_records,
                   unique_records, df, warnings, error, exitCode, sortMemo,
                   firstStore, rec, textVars, dictVars, reply, table, built>>

NextKey == ComputeKey

SpecKey == InitKey /\ [][NextKey]_vars

-----------------------------------------------------------------------------
(* deduplicate_records on its own *)

\* The record parse_records makes of an entry with the URI fields u (track,
\* episode, audiobook) at place i of the first file; all the records have one
\* timestamp and one played duration.
UriRecord(u, i) ==
    [ts |-> TsNew, ms_played |-> 1000, master_metadata_track_name |-> NoneText,
     spotify_track_uri |-> u[1], spotify_episode_uri |-> u[2],
     audiobook_uri |-> u[3], src |-> <<1, i>>] @@ NoOtherTexts

\* The lists of parsed records deduplicate_records is given.
DedupInputs ==
    LET U == UriValues(TrackA) \X UriValues(EpisodeE) \X UriValues(BookB)
    IN  {[i \in DOMAIN us |-> UriRecord(us[i], i)] : us \in Entries(U)}

\* main at line 144, with any list of parsed records.
InitDedup ==
    /\ all_records \in DedupInputs
    /\ pc = "dedup"
    /\ json_files = << >>
    /\ loaded = 0
    /\ unique_records = << >>
    /\ df = << >>
    /\ warnings = 0
    /\ error = ""
    /\ exitCode = << >>
    /\ built = FirstRun
    /\ files = <<MissingFile, MissingFile, MissingFile>>
    /\ parquet = AbsentFile
    /\ csv = AbsentFile
    /\ sqlite = AbsentFile
    /\ sortMemo = << >>
    /\ firstStore = << >>
    /\ rec = NoRecord
    /\ key = << >>
    /\ NoText
    /\ NoDict
    /\ NoQuery

NextDedup == Deduplicate

SpecDedup == InitDedup /\ [][NextDedup]_vars

-----------------------------------------------------------------------------
(* normalize_text on its own *)

\* The code points of the texts: the six that normalize_text replaces, the two
\* it writes for them and the letter a (U+0061).
CodePoints ==
    {RightSingleQuote, LeftSingleQuote, LeftDoubleQuote, RightDoubleQuote,
     DoubleLow9Quote, DoubleHighReversed9Quote, Apostrophe, QuotationMark, 97}

\* The values normalize_text is given: None, or a string of up to MaxLen code
\* points.
Texts ==
    {NoneText} \cup {Text(s) : s \in UNION {[1..n -> CodePoints] : n \in 0..MaxLen}}

\* No run of main is being followed.
NoRun ==
    /\ files = <<MissingFile, MissingFile, MissingFile>>
    /\ parquet = AbsentFile
    /\ csv = AbsentFile
    /\ sqlite = AbsentFile
    /\ Fresh
    /\ sortMemo = << >>
    /\ firstStore = << >>
    /\ rec = NoRecord
    /\ key = << >>

InitNorm ==
    /\ given \in Texts
    /\ normalized = << >>
    /\ twice = << >>
    /\ NoRun
    /\ NoDict
    /\ NoQuery

\* normalize_text(given).
Normalize ==
    /\ normalized = << >>
    /\ normalized' = <<normalize_text(given)>>
    /\ UNCHANGED <<files, parquet, csv, sqlite, pc, json_files, loaded, all_records,
                   unique_records, df, warnings, error, exitCode, sortMemo,
                   firstStore, rec, key, given, twice, dictVars, reply, table, built>>

\* normalize_text applied to what normalize_text returned.
NormalizeAgain ==
    /\ normalized # << >>
    /\ twice = << >>
    /\ twice' = <<normalize_text(normalized[1])>>
    /\ UNCHANGED <<files, parquet, csv, sqlite, pc, json_files, loaded, all_records,
                   unique_records, df, warnings, error, exitCode, sortMemo,
                   firstStore, rec, key, given, normalized, dictVars, reply, table, built>>

NextNorm ==
    \/ Normalize
    \/ NormalizeAgain

SpecNorm == InitNorm /\ [][NextNorm]_vars

-----------------------------------------------------------------------------
(* from_dict on its own *)

\* A value an export file gives the key k, and JSON's null for it.
GivenValue(k) ==
    CASE k = "ts" -> TsNew
      [] k = "ms_played" -> 1000
      [] k = "spotify_track_uri" -> TrackA
      [] k = "spotify_episode_uri" -> EpisodeE
      [] k = "audiobook_uri" -> BookB
      [] OTHER -> Text(<<97>>)

NullValue(k) ==
    CASE k \in text_columns -> NoneText
      [] k = "ms_played" -> 0
      [] OTHER -> None

\* The raw entries from_dict is given: JSON objects that hold any subset of
\* the recognized keys, each with a value or (all but ms_played) with null,
\* and possibly a key from_dict does not read; and an entry that is no object.
Mappings ==
    {NotAnObject} \cup
    {Obj([k \in present \cup extra |->
             IF k \in extra THEN "x"
             ELSE IF nulls /\ k # "ms_played" THEN NullValue(k) ELSE GivenValue(k)]) :
        present \in SUBSET Keys, extra \in {{}, {"unrecognized"}}, nulls \in BOOLEAN}

InitFromDict ==
    /\ mapping \in Mappings
    /\ parsed = << >>
    /\ NoRun
    /\ NoText
    /\ NoQuery

\* The body of the try of parse_records (lines 54-56) for one entry:
\* from_dict returns a record or raises.
ApplyFromDict ==
    /\ parsed = << >>
    /\ parsed' = IF FromDictRaises(mapping)
                 THEN <<[raised |-> TRUE, record |-> NoRecord]>>
                 ELSE <<[raised |-> FALSE, record |-> from_dict(mapping, <<1, 1>>)]>>
    /\ UNCHANGED <<files, parquet, csv, sqlite, pc, json_files, loaded, all_records,
                   unique_records, df, warnings, error, exitCode, sortMemo,
                   firstStore, rec, key, textVars, mapping, reply, table, built>>

NextFromDict == ApplyFromDict

SpecFromDict == InitFromDict /\ [][NextFromDict]_vars

-----------------------------------------------------------------------------
(* The queries: dashboard/app.py, scripts/top_artists_script.py,           *)
(* scripts/song_stats.py, scripts/artist_stats.py                          *)

\* The default of update_top_artists for a missing or non-positive top_n, its
\* maximum, and the divisor of its hours column.
DefaultTopN == 10
MaxTopArtists == 100
MsPerHour == 3600000

\* The default of the report's --top-n argument.
CliDefaultTopN == 10

\* The artists and track titles of the stores: "x" and "Y z", "A b" and "c".
ArtistX == Text(<<120>>)
ArtistYZ == Text(<<89, 32, 122>>)
TitleAB == Text(<<65, 32, 98>>)
TitleC == Text(<<99>>)

\* The calendar month an instant lies in: instant 1 is 2023-06-01, instant 2
\* 2024-01-01 (TsOld and TsNew), the instants after it are later in January
\* 2024.
Calendar(ts) ==
    IF ts = 1 THEN [year |-> 2023, month |-> 6] ELSE [year |-> 2024, month |-> 1]

\* df['year'] = df['ts'].dt.year (load_data), as the dropdown and --year
\* spell it; NaT has no year (NaN).
Year(ts) == IF ts = NaT THEN "nan" ELSE ToString(Calendar(ts).year)

\* Row i of a store: a play of `track` by `artist` for `ms` milliseconds; a
\* row without track name is a podcast episode.  The rows are in the order of
\* their timestamps, which differ.
StoreRow(i, artist, track, ms) ==
    [ts |-> i, ms_played |-> ms,
     master_metadata_track_name |-> track,
     master_metadata_album_artist_name |-> artist,
     spotify_track_uri |-> IF track # NoneText THEN TrackA ELSE None,
     spotify_episode_uri |-> IF track # NoneText THEN None ELSE EpisodeE,
     audiobook_uri |-> None,
     src |-> <<1, i>>]
    @@ NoOtherTexts

\* The stores a query finds: up to MaxRows rows.
QueryStores ==
    LET RowKinds == {ArtistX, ArtistYZ, NoneText} \X {TitleAB, TitleC, NoneText}
                        \X {100000, 170000}
    IN  {[i \in DOMAIN ks |-> StoreRow(i, ks[i][1], ks[i][2], ks[i][3])] :
            ks \in UNION {[1..n -> RowKinds] : n \in 0..MaxRows}}

\* The values of the year dropdown and of the --year argument ("all": all
\* time, the argument left out).
Years == {"all", "2024"}

\* The values of the top-n input and of the --top-n argument: << >> when it is
\* empty or left out, else <<n>>.
TopNInputs == {<< >>, <<-1>>, <<0>>, <<1>>, <<2>>, <<101>>}

\* The search strings: None (nothing was ever typed), "", " ", "a", "C", "Z",
\* "." and "(".
Queries ==
    {NoneText, Text(<< >>), Text(<<32>>), Text(<<97>>), Text(<<67>>), Text(<<90>>),
     Text(<<46>>), Text(<<40>>)}

\* The sum of column ms_played.
RECURSIVE SumMs(_)
SumMs(rows) ==
    IF rows = << >> THEN 0 ELSE Head(rows).ms_played + SumMs(Tail(rows))

\* String a sorts before string b: the order of their code points.
TextBefore(a, b) ==
    \E i \in 1..Len(b[1]) :
        /\ \A j \in 1..(i - 1) : j <= Len(a[1]) /\ a[1][j] = b[1][j]
        /\ i > Len(a[1]) \/ a[1][i] < b[1][i]

\* The keys of groupby('master_metadata_album_artist_name'): the values of
\* the column, null left out (dropna), in sorted order (sort=True).
GroupKeys(rows) ==
    LET names == {rows[i].master_metadata_album_artist_name : i \in DOMAIN rows}
                    \ {NoneText}
    IN  CHOOSE order \in [1..Cardinality(names) -> names] :
            \A i, j \in DOMAIN order : i < j => TextBefore(order[i], order[j])

\* The rows of the group of `artist`.
GroupRows(rows, artist) ==
    SelectSeq(rows, LAMBDA r : r.master_metadata_album_artist_name = artist)

\* Series.round(1) of total_ms / 3600000, in tenths of an hour: the nearest
\* tenth, a value halfway between two going to the even one.
hours(total_ms) ==
    LET q == (10 * total_ms) \div MsPerHour
        r == (10 * total_ms) % MsPerHour
    IN  IF 2 * r < MsPerHour THEN q
        ELSE IF 2 * r > MsPerHour THEN q + 1
        ELSE IF q % 2 = 0 THEN q ELSE q + 1

\* A filter that also lets the rows without timestamp through.
FilterYearOrUnset(rows, year) ==
    IF year # "all"
    THEN SelectSeq(rows, LAMBDA r : r.ts = NaT \/ Year(r.ts) = year)
    ELSE rows

\* The filter on the year column; "all" selects every row.
FilterYear(rows, year) ==
    IF year # "all" THEN SelectSeq(rows, LAMBDA r : Year(r.ts) = year) ELSE rows

\* The permutations of 1..n.
Orders(n) ==
    {p \in [1..n -> 1..n] : \A i, j \in 1..n : i # j => p[i] # p[j]}

\* Every outcome of DataFrame.sort_values(col, ascending=False): the rows in
\* descending order of col.  The default kind='quicksort' is not stable:
\* rows with equal values may come out in any order.
sort_values_descending(frame, col) ==
    LET len == Len(frame)
    IN  {[i \in 1..len |-> frame[p[i]]] :
            p \in {q \in Orders(len) :
                      \A i \in 1..len :
                          i < len => frame[q[i]][col] >= frame[q[i + 1]][col]}}

\* DataFrame.head(n): the first n rows; for a negative n, all rows but the
\* last -n.
head(frame, n) ==
    LET len == Len(frame)
    IN  IF n >= 0
        THEN SubSeq(frame, 1, IF n < len THEN n ELSE len)
        ELSE SubSeq(frame, 1, IF len + n > 0 THEN len + n ELSE 0)

\* Every outcome of DataFrame.nlargest(n, col) with keep='first'.  With n
\* below the number of rows: the n rows with the largest values of col in
\* descending order of col, rows with equal values in the order they have in
\* the frame, the first of them taken.  With n rows or fewer, pandas sorts the
\* whole frame instead (sort_values(ascending=False).head(n)).
nlargest(frame, n, col) ==
    LET len == Len(frame)
        p == CHOOSE q \in Orders(len) :
                 \A i, j \in 1..len :
                     i < j => \/ frame[q[i]][col] > frame[q[j]][col]
                              \/ /\ frame[q[i]][col] = frame[q[j]][col]
                                 /\ q[i] < q[j]
    IN  IF n < len
        THEN {[i \in 1..n |-> frame[p[i]]]}
        ELSE {head(sorted, n) : sorted \in sort_values_descending(frame, col)}

\* Lines 400-402 of update_top_artists: `not top_n` holds for None and for 0.
ValidTopN(top_n) ==
    LET n == IF top_n = << >> \/ top_n[1] = 0 \/ top_n[1] < 1
             THEN DefaultTopN
             ELSE top_n[1]
    IN  IF n < MaxTopArtists THEN n ELSE MaxTopArtists

\* update_top_artists(year, top_n), lines 399-417: the value of top_n it
\* selects with and every frame it can hand to the chart.
update_top_artists(df_, year, top_n) ==
    LET n == ValidTopN(top_n)
        filtered == SelectSeq(FilterYear(df_, year),
                        LAMBDA r : r.master_metadata_album_artist_name # NoneText)
        keys == GroupKeys(filtered)
        top_artists ==
            [g \in DOMAIN keys |->
                LET members == GroupRows(filtered, keys[g])
                IN  [artist |-> keys[g],
                     total_ms |-> SumMs(members),
                     plays |-> Len(SelectSeq(members,
                                 LAMBDA r : r.master_metadata_track_name # NoneText)),
                     hours |-> hours(SumMs(members))]]
    IN  {[top_n |-> n, rows |-> rows] : rows \in nlargest(top_artists, n, "hours")}

\* get_top_artists(year, top_n), lines 21-52 of top_artists_script.py: the
\* value of top_n it selects with and every frame it can return.  With no
\* row of the year, or none with an artist, it returns an empty frame.
get_top_artists(df_, year, top_n) ==
    LET n == IF top_n = << >> THEN CliDefaultTopN ELSE top_n[1]
        df_tracks == SelectSeq(FilterYear(df_, year),
                        LAMBDA r : r.master_metadata_album_artist_name # NoneText)
        keys == GroupKeys(df_tracks)
        top_artists ==
            [g \in DOMAIN keys |->
                LET members == GroupRows(df_tracks, keys[g])
                IN  [master_metadata_album_artist_name |-> keys[g],
                     total_ms |-> SumMs(members),
                     play_count |-> Len(members)]]
    IN  {[top_n |-> n, rows |-> head(sorted, n), filtered |-> FilterYear(df_, year)] :
            sorted \in sort_values_descending(top_artists, "total_ms")}

\* str.lower() on one code point (of the ASCII letters).
Lower(c) == IF c \in 65..90 THEN c + 32 ELSE c

lower(t) == Text([i \in DOMAIN t[1] |-> Lower(t[1][i])])

\* Series.str.contains(pat, na=False, regex=False) on one value: null does
\* not match; a string matches when pat occurs in it.  The empty pattern
\* occurs in every string.
contains(value, pat) ==
    /\ value # NoneText
    /\ \E start \in 0..(Len(value[1]) - Len(pat[1])) :
          SubSeq(value[1], start + 1, start + Len(pat[1])) = pat[1]

\* re.compile(pat) raises re.error: the pattern opens a group with "(" that
\* it does not close.
ReCompileRaises(pat) ==
    Len(SelectSeq(pat[1], LAMBDA c : c = 40)) > Len(SelectSeq(pat[1], LAMBDA c : c = 41))

\* Series.str.contains(pat, na=False) with the default regex=True, on one
\* value: re.search(pat, value) for a pattern of letters, spaces and ".".  A
\* letter or a space matches itself, "." any character.
re_search(pat, value) ==
    /\ value # NoneText
    /\ \E start \in 0..(Len(value[1]) - Len(pat[1])) :
          \A i \in DOMAIN pat[1] :
              pat[1][i] = 46 \/ pat[1][i] = value[1][start + i]

\* The keys of groupby([a, b]): the pairs of values of the two columns, the
\* rows with a null in either left out (dropna), in sorted order.
GroupKeys2(rows, a, b) ==
    LET pairs == {<<rows[i][a], rows[i][b]>> : i \in DOMAIN rows} \
                     {p \in {<<rows[i][a], rows[i][b]>> : i \in DOMAIN rows} :
                         p[1] = NoneText \/ p[2] = NoneText}
    IN  CHOOSE order \in [1..Cardinality(pairs) -> pairs] :
            \A i, j \in DOMAIN order :
                i < j => \/ TextBefore(order[i][1], order[j][1])
                         \/ /\ order[i][1] = order[j][1]
                            /\ TextBefore(order[i][2], order[j][2])

\* Series.nunique(): the number of distinct values, null not counted.
nunique(rows, col) ==
    Cardinality({rows[i][col] : i \in DOMAIN rows} \ {NoneText})

\* Lines 532-538 of search_song: every outcome of the grouping of the matches
\* by song and artist, sorted by plays ('ts': 'count').
dashboard_song_groups(matches) ==
    LET keys == GroupKeys2(matches, "master_metadata_track_name",
                           "master_metadata_album_artist_name")
        song_stats ==
            [g \in DOMAIN keys |->
                LET members == SelectSeq(matches, LAMBDA r :
                                   /\ r.master_metadata_track_name = keys[g][1]
                                   /\ r.master_metadata_album_artist_name = keys[g][2])
                IN  [song |-> keys[g][1], artist |-> keys[g][2],
                     total_ms |-> SumMs(members),
                     plays |-> Len(SelectSeq(members, LAMBDA r : r.ts # NaT))]]
    IN  sort_values_descending(song_stats, "plays")

\* Lines 577-580 of search_artist: the figures of all matches together.
dashboard_artist_groups(matches) ==
    {<<[total_plays |-> Len(matches),
        total_ms |-> SumMs(matches),
        unique_songs |-> nunique(matches, "master_metadata_track_name")]>>}

\* search_song (lines 520-538) and search_artist (lines 565-580) of the
\* dashboard: column col is searched for text.  `not text` holds for None
\* and for "".
dashboard_search(df_, col, n_clicks, text) ==
    IF n_clicks = 0 \/ text = NoneText \/ text = Text(<< >>)
    THEN {[kind |-> "empty", matches |-> << >>, groups |-> << >>]}
    ELSE IF ReCompileRaises(lower(text))
    THEN {[kind |-> "raised", matches |-> << >>, groups |-> << >>]}
    ELSE LET matches == SelectSeq(df_, LAMBDA r :
                            re_search(lower(text), IF r[col] = NoneText THEN NoneText
                                                   ELSE lower(r[col])))
         IN  IF Len(matches) = 0
             THEN {[kind |-> "none_found", matches |-> matches, groups |-> << >>]}
             ELSE {[kind |-> "stats", matches |-> matches, groups |-> groups] :
                     groups \in IF col = "master_metadata_track_name"
                                THEN dashboard_song_groups(matches)
                                ELSE dashboard_artist_groups(matches)}

\* The values of a column in the order they first occur (Series.unique()).
RECURSIVE unique(_, _)
unique(rows, col) ==
    IF rows = << >> THEN << >>
    ELSE LET init == unique(SubSeq(rows, 1, Len(rows) - 1), col)
             last == rows[Len(rows)][col]
         IN  IF \E i \in DOMAIN init : init[i] = last THEN init
             ELSE Append(init, last)

\* Lines 50-66 of get_song_stats: every outcome of the grouping of the
\* matches by song and artist, sorted by play count.
cli_song_groups(matches) ==
    LET keys == GroupKeys2(matches, "master_metadata_track_name",
                           "master_metadata_album_artist_name")
        song_stats ==
            [g \in DOMAIN keys |->
                LET members == SelectSeq(matches, LAMBDA r :
                                   /\ r.master_metadata_track_name = keys[g][1]
                                   /\ r.master_metadata_album_artist_name = keys[g][2])
                IN  [song_name |-> keys[g][1], artist |-> keys[g][2],
                     total_ms |-> SumMs(members),
                     play_count |-> Len(members)]]
    IN  sort_values_descending(song_stats, "play_count")

\* Lines 52-119 of get_artist_stats: one result for each artist among the
\* matches, in the order they first occur.
cli_artist_groups(matches) ==
    LET unique_artists == unique(matches, "master_metadata_album_artist_name")
    IN  {[a \in DOMAIN unique_artists |->
            LET artist_tracks == GroupRows(matches, unique_artists[a])
            IN  [artist |-> unique_artists[a],
                 total_plays |-> Len(artist_tracks),
                 total_ms |-> SumMs(artist_tracks),
                 unique_songs |-> nunique(artist_tracks, "master_metadata_track_name")]]}

\* get_song_stats (lines 22-66 of song_stats.py) and get_artist_stats (lines
\* 22-119 of artist_stats.py).  Both keep the rows with a track name and a
\* track URI, get_artist_stats those of them with an artist name.
cli_search(df_, col, text, exact_match) ==
    LET df_tracks == SelectSeq(df_, LAMBDA r :
                         /\ r.master_metadata_track_name # NoneText
                         /\ r.spotify_track_uri # None
                         /\ r[col] # NoneText)
        matches == SelectSeq(df_tracks, LAMBDA r :
                       IF exact_match
                       THEN lower(r[col]) = lower(text)
                       ELSE contains(lower(r[col]), lower(text)))
    IN  IF Len(df_tracks) = 0
        THEN {[kind |-> "empty", matches |-> << >>, groups |-> << >>]}
        ELSE IF Len(matches) = 0
             THEN {[kind |-> "none_found", matches |-> matches, groups |-> << >>]}
             ELSE {[kind |-> "stats", matches |-> matches, groups |-> groups] :
                     groups \in IF col = "master_metadata_track_name"
                                THEN cli_song_groups(matches)
                                ELSE cli_artist_groups(matches)}

\* The columns the searches look in.
SearchColumns == {"master_metadata_track_name", "master_metadata_album_artist_name"}

\* The store is there and no run of main is under way.
InitQuery ==
    /\ \E rows \in QueryStores :
          /\ parquet = CompleteFile(rows)
          /\ csv = CompleteFile(rows)
          /\ sqlite = CompleteFile(rows)
    /\ files = <<MissingFile, MissingFile, MissingFile>>
    /\ Fresh
    /\ sortMemo = << >>
    /\ firstStore = << >>
    /\ rec = NoRecord
    /\ key = << >>
    /\ NoText
    /\ NoDict
    /\ NoQuery

\* The dashboard's top-artists callback.
UpdateTopArtists ==
    /\ reply = << >>
    /\ \E year \in Years, top_n \in TopNInputs :
          \E out \in update_top_artists(parquet.rows, year, top_n) :
              reply' = <<[op |-> "top_artists", via |-> "dashboard", year |-> year,
                          n |-> top_n, top_n |-> out.top_n, rows |-> out.rows]>>
    /\ UNCHANGED <<files, parquet, csv, sqlite, pc, json_files, loaded, all_records,
                   unique_records, df, warnings, error, exitCode, sortMemo,
                   firstStore, rec, key, textVars, dictVars, table, built>>

\* python top_artists_script.py [-y year] [-n top_n].
GetTopArtists ==
    /\ reply = << >>
    /\ \E year \in Years, top_n \in TopNInputs :
          \E out \in get_top_artists(parquet.rows, year, top_n) :
              reply' = <<[op |-> "top_artists", via |-> "cli", year |-> year,
                          n |-> top_n, top_n |-> out.top_n, rows |-> out.rows]>>
    /\ UNCHANGED <<files, parquet, csv, sqlite, pc, json_files, loaded, all_records,
                   unique_records, df, warnings, error, exitCode, sortMemo,
                   firstStore, rec, key, textVars, dictVars, table, built>>

\* The dashboard's song and artist search callbacks.
DashboardSearch ==
    /\ reply = << >>
    /\ \E col \in SearchColumns, n_clicks \in {0, 1}, q \in Queries :
          \E out \in dashboard_search(parquet.rows, col, n_clicks, q) :
              reply' = <<[op |-> "search", via |-> "dashboard", col |-> col,
                          query |-> q, exact |-> FALSE, kind |-> out.kind,
                          matches |-> out.matches, groups |-> out.groups]>>
    /\ UNCHANGED <<files, parquet, csv, sqlite, pc, json_files, loaded, all_records,
                   unique_records, df, warnings, error, exitCode, sortMemo,
                   firstStore, rec, key, textVars, dictVars, table, built>>

\* python song_stats.py song_name [-e], python artist_stats.py artist_name
\* [-e]: the name is a string, possibly empty.
CliSearch ==
    /\ reply = << >>
    /\ \E col \in SearchColumns, q \in Queries \ {NoneText}, exact \in BOOLEAN :
          \E out \in cli_search(parquet.rows, col, q, exact) :
              reply' = <<[op |-> "search", via |-> "cli", col |-> col,
                          query |-> q, exact |-> exact, kind |-> out.kind,
                          matches |-> out.matches, groups |-> out.groups]>>
    /\ UNCHANGED <<files, parquet, csv, sqlite, pc, json_files, loaded, all_records,
                   unique_records, df, warnings, error, exitCode, sortMemo,
                   firstStore, rec, key, textVars, dictVars, table, built>>

\* The top-artists callback and the top-artists report, both asked for the
\* same year and the same n on the same store.
BothTopArtists ==
    /\ reply = << >>
    /\ \E year \in Years, top_n \in {<<1>>, <<2>>} :
          \E shown \in update_top_artists(parquet.rows, year, top_n) :
          \E printed \in get_top_artists(parquet.rows, year, top_n) :
              reply' = <<[op |-> "both_top_artists", year |-> year, n |-> top_n,
                          dashboard |-> shown.rows, cli |-> printed.rows]>>
    /\ UNCHANGED <<files, parquet, csv, sqlite, pc, json_files, loaded, all_records,
                   unique_records, df, warnings, error, exitCode, sortMemo,
                   firstStore, rec, key, textVars, dictVars, table, built>>

NextQuery ==
    \/ UpdateTopArtists
    \/ GetTopArtists
    \/ DashboardSearch
    \/ CliSearch
    \/ BothTopArtists

SpecQuery == InitQuery /\ [][NextQuery]_vars

-----------------------------------------------------------------------------
(* The dashboard's table and the queries made of it: dashboard/app.py; the  *)
(* reports scripts/top_artists_script.py and scripts/query_examples.py      *)

\* The divisor of the minutes columns, the maximum of update_top_podcasts.
MsPerMinute == 60000
MaxTopPodcasts == 50

TrackB == "spotify:track:b"

\* The kinds of record of the stores: two songs of the same title "A b" by
\* different artists, a podcast episode "e" of the show "s", a chapter of the
\* audiobook "t" that was opened and not played, and a record of no content
\* type at all.
SongByX ==
    [ms_played |-> 170000, skipped |-> "False",
     master_metadata_track_name |-> TitleAB,
     spotify_track_uri |-> TrackA, spotify_episode_uri |-> None,
     audiobook_uri |-> None]
    @@ [NoOtherTexts EXCEPT !.master_metadata_album_artist_name = ArtistX]

SongByYZ ==
    [ms_played |-> 100000, skipped |-> "True",
     master_metadata_track_name |-> TitleAB,
     spotify_track_uri |-> TrackB, spotify_episode_uri |-> None,
     audiobook_uri |-> None]
    @@ [NoOtherTexts EXCEPT !.master_metadata_album_artist_name = ArtistYZ]

Episode ==
    [ms_played |-> 100000, skipped |-> "False",
     master_metadata_track_name |-> NoneText,
     spotify_track_uri |-> None, spotify_episode_uri |-> EpisodeE,
     audiobook_uri |-> None]
    @@ [NoOtherTexts EXCEPT !.episode_name = Text(<<101>>),
                            !.episode_show_name = Text(<<115>>)]

Chapter ==
    [ms_played |-> 0, skipped |-> None,
     master_metadata_track_name |-> NoneText,
     spotify_track_uri |-> None, spotify_episode_uri |-> None,
     audiobook_uri |-> BookB]
    @@ [NoOtherTexts EXCEPT !.audiobook_title = Text(<<116>>)]

Unclassified ==
    [ms_played |-> 170000, skipped |-> None,
     master_metadata_track_name |-> NoneText,
     spotify_track_uri |-> None, spotify_episode_uri |-> None,
     audiobook_uri |-> None]
    @@ NoOtherTexts

RecordKinds == {SongByX, SongByYZ, Episode, Chapter, Unclassified}

\* The instants of the records of the stores, and no instant (a record
\* without timestamp).
Instants == {1, 2, 3, NaT}

\* The stores the dashboard and the reports find: up to MaxPlays rows in the
\* order create_dataframe leaves them in, by timestamp with NaT last.
ReportStores ==
    {[i \in DOMAIN ks |-> [ts |-> ks[i][2], src |-> <<1, i>>] @@ ks[i][1]] :
        ks \in {k \in UNION {[1..n -> RecordKinds \X Instants] : n \in 0..MaxPlays} :
                  \A i \in DOMAIN k : i < Len(k) => TsInOrder(k[i][2], k[i + 1][2])}}

\* The columns of the store (DataFrame.columns of what read_parquet returns).
StoreColumns ==
    {"ts", "ms_played", "skipped", "spotify_track_uri", "spotify_episode_uri",
     "audiobook_uri"} \cup text_columns

\* load_data(), lines 27-31: the table read from the store, with the columns
\* minutes and year added.  A table is an object: `shared` tells the module's
\* df from a copy of it.
load_data(store) ==
    [shared |-> TRUE,
     columns |-> StoreColumns \cup {"minutes", "year"},
     rows |-> store.rows]

\* No copy: another name for the same object.
alias(frame) == frame

\* DataFrame.copy(): a new object with the same columns and rows.
copy(frame) == [frame EXCEPT !.shared = FALSE]

\* A set of strings in sorted order.
SortedTexts(names) ==
    CHOOSE order \in [1..Cardinality(names) -> names] :
        \A i, j \in DOMAIN order : i < j => TextBefore(order[i], order[j])

\* The keys of groupby(col): the values of the column, null left out, in
\* sorted order.
GroupKeysBy(rows, col) ==
    SortedTexts({rows[i][col] : i \in DOMAIN rows} \ {NoneText})

\* The aggregation 'count' of column col: the number of values not null.
count(rows, col) == Len(SelectSeq(rows, LAMBDA r : r[col] # NoneText))

\* The figures with the plays counted among the tracks only.
update_stats_of_tracks(df_, year) ==
    LET filtered == FilterYear(copy(df_).rows, year)
        tracks_only == SelectSeq(filtered,
                           LAMBDA r : r.master_metadata_track_name # NoneText)
    IN  [total_plays |-> Len(tracks_only),
         hours_listened |-> hours(SumMs(filtered)),
         unique_songs |-> nunique(tracks_only, "master_metadata_track_name"),
         unique_artists |-> nunique(tracks_only, "master_metadata_album_artist_name"),
         filtered |-> filtered]

\* update_stats(year), lines 372-391: the four figures, and the rows they are
\* computed from.  The hours are in tenths (format ',.1f').
update_stats(df_, year) ==
    LET filtered == FilterYear(copy(df_).rows, year)
        tracks_only == SelectSeq(filtered,
                           LAMBDA r : r.master_metadata_track_name # NoneText)
    IN  [total_plays |-> Len(filtered),
         hours_listened |-> hours(SumMs(filtered)),
         unique_songs |-> nunique(tracks_only, "master_metadata_track_name"),
         unique_artists |-> nunique(tracks_only, "master_metadata_album_artist_name"),
         filtered |-> filtered]

\* The decimal digits of n, in `width` places, as code points.
RECURSIVE Digits(_, _)
Digits(n, width) ==
    IF width = 0 THEN << >>
    ELSE Append(Digits(n \div 10, width - 1), 48 + (n % 10))

\* Series.dt.to_period('M').astype(str) on one value: "2024-01", and "NaT"
\* for NaT.
to_period_M(ts) ==
    IF ts = NaT THEN Text(<<78, 97, 84>>)
    ELSE Text(Digits(Calendar(ts).year, 4) \o <<45>> \o Digits(Calendar(ts).month, 2))

\* update_trends(_), lines 711-721: the table (the module's df) as the
\* callback leaves it, and the frame it draws.
update_trends(df_) ==
    LET df_trends == copy(df_)
        with_month == [df_trends EXCEPT !.columns = @ \cup {"month"}]
        months == SortedTexts({to_period_M(df_trends.rows[i].ts) :
                                  i \in DOMAIN df_trends.rows})
        monthly ==
            [g \in DOMAIN months |->
                LET members == SelectSeq(df_trends.rows,
                                   LAMBDA r : to_period_M(r.ts) = months[g])
                IN  [month |-> months[g],
                     total_ms |-> SumMs(members),
                     plays |-> count(members, "master_metadata_track_name"),
                     hours |-> hours(SumMs(members))]]
    IN  [df |-> IF df_trends.shared THEN with_month ELSE df_,
         monthly |-> monthly]

\* Series.round(1) of total_ms / 60000, in tenths of a minute.
minutes(total_ms) ==
    LET q == (10 * total_ms) \div MsPerMinute
        r == (10 * total_ms) % MsPerMinute
    IN  IF 2 * r < MsPerMinute THEN q
        ELSE IF 2 * r > MsPerMinute THEN q + 1
        ELSE IF q % 2 = 0 THEN q ELSE q + 1

\* Lines 459-460 and 645-646: `not top_n` holds for None and for 0.
TopNOrDefault(top_n) ==
    IF top_n = << >> \/ top_n[1] = 0 \/ top_n[1] < 1 THEN DefaultTopN ELSE top_n[1]

\* update_top_songs(year, top_n, sort_by), lines 458-480: every frame it can
\* hand to the chart.
update_top_songs(df_, year, top_n, sort_by) ==
    LET n == IF TopNOrDefault(top_n) < MaxTopArtists THEN TopNOrDefault(top_n)
             ELSE MaxTopArtists
        filtered == SelectSeq(FilterYear(copy(df_).rows, year),
                        LAMBDA r : r.master_metadata_track_name # NoneText)
        keys == GroupKeys2(filtered, "master_metadata_track_name",
                           "master_metadata_album_artist_name")
        top_songs ==
            [g \in DOMAIN keys |->
                LET members == SelectSeq(filtered, LAMBDA r :
                                   /\ r.master_metadata_track_name = keys[g][1]
                                   /\ r.master_metadata_album_artist_name = keys[g][2])
                IN  [song |-> keys[g][1], artist |-> keys[g][2],
                     total_ms |-> SumMs(members),
                     plays |-> Len(SelectSeq(members, LAMBDA r : r.ts # NaT)),
                     minutes |-> minutes(SumMs(members)),
                     hours |-> hours(SumMs(members)),
                     label |-> Text(lower(keys[g][1])[1] \o <<32, 45, 32>>
                                        \o lower(keys[g][2])[1])]]
        sort_col == IF sort_by = "plays" THEN "plays" ELSE "minutes"
    IN  nlargest(top_songs, n, sort_col)

\* update_top_podcasts(year, top_n), lines 644-673: every frame it can hand
\* to the chart; without a podcast row it shows "no podcast data found".
update_top_podcasts(df_, year, top_n) ==
    LET n == IF TopNOrDefault(top_n) < MaxTopPodcasts THEN TopNOrDefault(top_n)
             ELSE MaxTopPodcasts
        filtered == SelectSeq(FilterYear(copy(df_).rows, year),
                        LAMBDA r : r.episode_show_name # NoneText)
        keys == GroupKeysBy(filtered, "episode_show_name")
        top_podcasts ==
            [g \in DOMAIN keys |->
                LET members == SelectSeq(filtered,
                                   LAMBDA r : r.episode_show_name = keys[g])
                IN  [podcast |-> lower(keys[g]),
                     total_ms |-> SumMs(members),
                     episodes |-> count(members, "episode_name"),
                     hours |-> hours(SumMs(members))]]
    IN  IF Len(filtered) = 0
        THEN {[kind |-> "no_data", rows |-> << >>]}
        ELSE {[kind |-> "chart", rows |-> rows] :
                 rows \in nlargest(top_podcasts, n, "hours")}

\* part / whole * 100 as '.1f' prints it: in tenths of a percent.
percent(part, whole) ==
    LET q == (1000 * part) \div whole
        r == (1000 * part) % whole
    IN  IF 2 * r < whole THEN q
        ELSE IF 2 * r > whole THEN q + 1
        ELSE IF q % 2 = 0 THEN q ELSE q + 1

\* example_queries(), lines 30-58 of query_examples.py: the figures it
\* prints, up to the shares of skipped and completed records.  Python's /
\* raises ZeroDivisionError for a divisor 0.
example_queries(store) ==
    LET df_ == store.rows
        df_2024 == SelectSeq(df_, LAMBDA r : Year(r.ts) = "2024")
        skipped_ == SelectSeq(df_, LAMBDA r : r.skipped = "True")
        completed == SelectSeq(df_, LAMBDA r : r.skipped = "False")
    IN  IF Len(df_) = 0
        THEN [raised |-> "ZeroDivisionError", records |-> Len(df_),
              records_2024 |-> Len(df_2024), skipped |-> Len(skipped_),
              completed |-> Len(completed), shares |-> << >>]
        ELSE [raised |-> "", records |-> Len(df_),
              records_2024 |-> Len(df_2024), skipped |-> Len(skipped_),
              completed |-> Len(completed),
              shares |-> <<percent(Len(skipped_), Len(df_)),
                           percent(Len(completed), Len(df_))>>]

\* The dashboard is started on a store: the module's df is what load_data()
\* returns, and no callback has run.
InitReports ==
    /\ \E rows \in ReportStores :
          /\ parquet = CompleteFile(rows)
          /\ csv = CompleteFile(rows)
          /\ sqlite = CompleteFile(rows)
    /\ table = <<load_data(parquet)>>
    /\ reply = << >>
    /\ files = <<MissingFile, MissingFile, MissingFile>>
    /\ Fresh
    /\ sortMemo = << >>
    /\ firstStore = << >>
    /\ rec = NoRecord
    /\ key = << >>
    /\ NoText
    /\ NoDict

\* The stats callback.
StatsCallback ==
    /\ \E year \in Years :
          LET out == update_stats(table[1], year)
          IN  reply' = <<[op |-> "stats", via |-> "dashboard", year |-> year,
                          total_plays |-> out.total_plays,
                          hours_listened |-> out.hours_listened,
                          unique_songs |-> out.unique_songs,
                          unique_artists |-> out.unique_artists,
                          filtered |-> out.filtered]>>
    /\ UNCHANGED <<files, parquet, csv, sqlite, pc, json_files, loaded, all_records,
                   unique_records, df, warnings, error, exitCode, sortMemo,
                   firstStore, rec, key, textVars, dictVars, table, built>>

\* The top-artists callback, on the table.
TopArtistsCallback ==
    /\ \E year \in Years, top_n \in {<< >>, <<1>>} :
          \E out \in update_top_artists(copy(table[1]).rows, year, top_n) :
              reply' = <<[op |-> "top_artists", via |-> "dashboard", year |-> year,
                          n |-> top_n, top_n |-> out.top_n, rows |-> out.rows]>>
    /\ UNCHANGED <<files, parquet, csv, sqlite, pc, json_files, loaded, all_records,
                   unique_records, df, warnings, error, exitCode, sortMemo,
                   firstStore, rec, key, textVars, dictVars, table, built>>

\* The top-songs callback.
TopSongsCallback ==
    /\ \E year \in Years, top_n \in {<< >>}, sort_by \in {"plays", "minutes"} :
          \E rows \in update_top_songs(table[1], year, top_n, sort_by) :
              reply' = <<[op |-> "top_songs", via |-> "dashboard", year |-> year,
                          n |-> top_n, sort_by |-> sort_by, rows |-> rows]>>
    /\ UNCHANGED <<files, parquet, csv, sqlite, pc, json_files, loaded, all_records,
                   unique_records, df, warnings, error, exitCode, sortMemo,
                   firstStore, rec, key, textVars, dictVars, table, built>>

\* The top-podcasts callback.
TopPodcastsCallback ==
    /\ \E year \in Years, top_n \in {<<1>>} :
          \E out \in update_top_podcasts(table[1], year, top_n) :
              reply' = <<[op |-> "top_podcasts", via |-> "dashboard", year |-> year,
                          n |-> top_n, kind |-> out.kind, rows |-> out.rows]>>
    /\ UNCHANGED <<files, parquet, csv, sqlite, pc, json_files, loaded, all_records,
                   unique_records, df, warnings, error, exitCode, sortMemo,
                   firstStore, rec, key, textVars, dictVars, table, built>>

\* The song and artist search callbacks, on the table.
SearchCallback ==
    /\ \E col \in SearchColumns, q \in {Text(<<97>>)} :
          \E out \in dashboard_search(table[1].rows, col, 1, q) :
              reply' = <<[op |-> "search", via |-> "dashboard", col |-> col,
                          query |-> q, exact |-> FALSE, kind |-> out.kind,
                          matches |-> out.matches, groups |-> out.groups]>>
    /\ UNCHANGED <<files, parquet, csv, sqlite, pc, json_files, loaded, all_records,
                   unique_records, df, warnings, error, exitCode, sortMemo,
                   firstStore, rec, key, textVars, dictVars, table, built>>

\* The trends callback.
TrendsCallback ==
    /\ LET out == update_trends(table[1])
       IN  /\ table' = <<out.df>>
           /\ reply' = <<[op |-> "trends", via |-> "dashboard",
                          monthly |-> out.monthly]>>
    /\ UNCHANGED <<files, parquet, csv, sqlite, pc, json_files, loaded, all_records,
                   unique_records, df, warnings, error, exitCode, sortMemo,
                   firstStore, rec, key, textVars, dictVars, built>>

\* python top_artists_script.py [-y year] [-n top_n], on the store's file.
TopArtistsReport ==
    /\ \E year \in Years, top_n \in {<<1>>} :
          \E out \in get_top_artists(parquet.rows, year, top_n) :
              reply' = <<[op |-> "top_artists", via |-> "cli", year |-> year,
                          n |-> top_n, top_n |-> out.top_n, rows |-> out.rows,
                          filtered |-> out.filtered]>>
    /\ UNCHANGED <<files, parquet, csv, sqlite, pc, json_files, loaded, all_records,
                   unique_records, df, warnings, error, exitCode, sortMemo,
                   firstStore, rec, key, textVars, dictVars, table, built>>

\* python query_examples.py.
ExampleQueries ==
    /\ LET out == example_queries(parquet)
       IN  reply' = <<[op |-> "examples", via |-> "cli", raised |-> out.raised,
                       records |-> out.records, records_2024 |-> out.records_2024,
                       skipped |-> out.skipped, completed |-> out.completed,
                       shares |-> out.shares]>>
    /\ UNCHANGED <<files, parquet, csv, sqlite, pc, json_files, loaded, all_records,
                   unique_records, df, warnings, error, exitCode, sortMemo,
                   firstStore, rec, key, textVars, dictVars, table, built>>

NextReports ==
    \/ StatsCallback
    \/ TopArtistsCallback
    \/ TopSongsCallback
    \/ TopPodcastsCallback
    \/ SearchCallback
    \/ TrendsCallback
    \/ TopArtistsReport
    \/ ExampleQueries

SpecReports == InitReports /\ [][NextReports]_vars

-----------------------------------------------------------------------------
(* Properties *)

\* s1 comes before s2 in encounter order: an earlier file of the list, or the
\* same file and an earlier place in its array.
EncounterBefore(s1, s2) == s1[1] < s2[1] \/ (s1[1] = s2[1] /\ s1[2] < s2[2])

\* The content URI as the specification defines it: the track URI if present
\* (not null), else the episode URI, else the audiobook URI, else absent.
FirstPresentUri(r) ==
    IF r.spotify_track_uri # None THEN r.spotify_track_uri
    ELSE IF r.spotify_episode_uri # None THEN r.spotify_episode_uri
    ELSE r.audiobook_uri

\* The identity of a row of the store.
StoreIdentity(row) == <<row.ts, FirstPresentUri(row), row.ms_played>>

\* The run has ended with success.
Succeeded == pc = "done" /\ error = ""

\* C1: after a successful ingestion run no two rows of the persisted store
\* have an equal identity (timestamp, content_uri, played_duration_ms).
C1_NoEqualIdentities ==
    Succeeded =>
        \A i, j \in DOMAIN parquet.rows :
            i # j => StoreIdentity(parquet.rows[i]) # StoreIdentity(parquet.rows[j])

\* C2: of the parsed records that share an identity key, deduplication keeps
\* exactly one, the first in encounter order (the order of the file list,
\* then of the array), and drops every later one.
C2_DedupKeepsFirst ==
    pc = "frame" =>
        /\ \A i, j \in DOMAIN all_records :
              i < j => EncounterBefore(all_records[i].src, all_records[j].src)
        /\ \A i \in DOMAIN all_records :
              (\E u \in DOMAIN unique_records : unique_records[u] = all_records[i])
                <=> ~\E j \in DOMAIN all_records :
                        /\ j < i
                        /\ get_unique_key(all_records[j]) = get_unique_key(all_records[i])
        /\ \A u \in DOMAIN unique_records :
              \E i \in DOMAIN all_records : all_records[i] = unique_records[u]
        /\ \A u, v \in DOMAIN unique_records :
              u # v => get_unique_key(unique_records[u]) # get_unique_key(unique_records[v])

\* Deduplication has dropped a record whose title differs from the title of
\* the record kept for its key.
C2_Witness ==
    /\ pc = "frame"
    /\ \E i, j \in DOMAIN all_records :
          /\ i < j
          /\ get_unique_key(all_records[i]) = get_unique_key(all_records[j])
          /\ all_records[i].master_metadata_track_name
                # all_records[j].master_metadata_track_name
          /\ \E u \in DOMAIN unique_records : unique_records[u] = all_records[i]

\* C3: get_unique_key returns (ts, content_uri, ms_played) with content_uri
\* the track URI if present, else the episode URI if present, else the
\* audiobook URI if present, else absent, whatever the three URI fields hold.
C3_KeyIsFirstPresentUri ==
    key # << >> => key = <<rec.ts, FirstPresentUri(rec), rec.ms_played>>

\* C4: at every moment of an ingestion run, also when writing the new store
\* fails, the store file holds a complete version (the previous one or the new
\* one), never a partially written one.
C4_StoreNeverPartial == parquet.state # "partial"

\* The entry can be turned into a valid record: it is a JSON object and its
\* timestamp, if it has one, can be resolved.
WellFormed(e) == e.isObject /\ ~ToDatetimeRaises(Get(e, "ts", ""))

\* The entries of the files that exist, as <<file, position>>.
EntriesRead ==
    {s \in ConfiguredFiles \X (1..MaxEntries) :
        files[s[1]].exists /\ s[2] \in DOMAIN files[s[1]].data}

EntryAt(s) == files[s[1]].data[s[2]]

\* json.load accepts every file that exists.
AllDecodable == \A f \in ConfiguredFiles : files[f].exists => files[f].valid

\* The run has ended, one way or the other.
Ended == pc \in {"done", "crashed"}

\* The store holds a row for the entry at s: the row of that entry, or of the
\* earlier entry with the same identity key that deduplication kept for it.
InStore(s) ==
    /\ parquet.state = "complete"
    /\ \E i \in DOMAIN parquet.rows :
          /\ parquet.rows[i].src \in EntriesRead
          /\ get_unique_key(from_dict(EntryAt(parquet.rows[i].src), s))
                = get_unique_key(from_dict(EntryAt(s), s))

\* C5: a malformed entry (not a JSON object, or with a timestamp that cannot
\* be resolved) never aborts the batch: it alone is skipped, and every
\* well-formed entry of every file reaches the persisted store.
C5_MalformedEntryOnlySkipped ==
    Ended /\ AllDecodable =>
        \A s \in EntriesRead : WellFormed(EntryAt(s)) => error = "" /\ InStore(s)

\* C6: rows of the persisted store with equal timestamps are in the order in
\* which their records were encountered (rows that differ in identity; rows
\* of equal identity are the subject of C1).
C6_StableSort ==
    Succeeded =>
        \A i, j \in DOMAIN parquet.rows :
            /\ i < j
            /\ parquet.rows[i].ts = parquet.rows[j].ts
            /\ StoreIdentity(parquet.rows[i]) # StoreIdentity(parquet.rows[j])
            => EncounterBefore(parquet.rows[i].src, parquet.rows[j].src)

\* timestamp a <= timestamp b; a comparison with an unset timestamp is false.
TsLeq(a, b) == a # NaT /\ b # NaT /\ a <= b

\* C7: timestamp[i] <= timestamp[i+1] for all adjacent rows i, i+1 of the
\* persisted store, whatever order the records had in the input files.
C7_AdjacentRowsOrdered ==
    Succeeded =>
        \A i \in DOMAIN parquet.rows :
            i < Len(parquet.rows) => TsLeq(parquet.rows[i].ts, parquet.rows[i + 1].ts)

\* What the sort does establish: adjacent rows whose timestamps are both set
\* are in ascending order, and a row without a timestamp is followed only by
\* rows without one.
OrderedWithUnsetLast ==
    Succeeded =>
        \A i \in DOMAIN parquet.rows :
            i < Len(parquet.rows) =>
                LET a == parquet.rows[i].ts
                    b == parquet.rows[i + 1].ts
                IN  /\ a # NaT /\ b # NaT => a <= b
                    /\ a = NaT => b = NaT

\* C8: running the ingestion again on the same input files leaves a store
\* with the same rows in the same order as the first completed run left.
C8_SecondRunSameStore ==
    firstStore # << >> /\ parquet.state = "complete" => parquet.rows = firstStore[1]

\* A later run has just written the store again, and it holds several rows.
C8_Witness ==
    /\ firstStore # << >>
    /\ pc = "csv"
    /\ Len(parquet.rows) > 1

\* No entry read has a timestamp that cannot be resolved.
NoBadTimestamp ==
    \A s \in EntriesRead : EntryAt(s).isObject => ~ToDatetimeRaises(Get(EntryAt(s), "ts", ""))

\* C9: whenever at least one configured file exists and decodes as a JSON
\* array, the run completes and writes a store, whatever number of parseable
\* records (none included) the files hold.  (Stated for inputs in which every
\* existing file decodes and no timestamp is unresolvable.)
C9_RunsOnAnyExistingFile ==
    /\ Ended
    /\ \E f \in ConfiguredFiles : files[f].exists
    /\ AllDecodable
    /\ NoBadTimestamp
    => Succeeded /\ parquet.state = "complete"

\* C10: the command exits with code 0 when it succeeds and with a non-zero
\* code when it fails fatally, as when no configured input file is found.
C10_ExitCodeTellsFailure ==
    exitCode # << >> => (error = "" <=> exitCode = <<0>>)

\* None of the configured input files exists.
NoInputFile == \A f \in ConfiguredFiles : ~files[f].exists

\* C11: when none of the configured input files exists, no step of the
\* ingestion run changes an output file (parquet, CSV, SQLite): none is written
\* and a store persisted earlier stays as it was.
C11_NoInputNoWrite ==
    [][NoInputFile => UNCHANGED <<parquet, csv, sqlite>>]_vars

\* A run without input files has returned, and the earlier store is there.
C11_Witness ==
    /\ NoInputFile
    /\ pc = "done"
    /\ error = "No JSON files found!"
    /\ parquet = CompleteFile(PrevRows)
    /\ csv = CompleteFile(PrevRows)
    /\ sqlite = CompleteFile(PrevRows)

\* The identity of a record as the specification defines it.
Identity(r) == <<r.ts, FirstPresentUri(r), r.ms_played>>

\* The record has no track, episode or audiobook URI.
NoUri(r) ==
    /\ r.spotify_track_uri = None
    /\ r.spotify_episode_uri = None
    /\ r.audiobook_uri = None

\* Deduplication kept the record.
Kept(r) == \E u \in DOMAIN unique_records : unique_records[u] = r

\* C12: deduplication never loses an identity: every identity that occurs
\* among the parsed records occurs on exactly one record of the output, also
\* when its content URI is absent; and a record with no track, episode or
\* audiobook URI is dropped only if an earlier record has the same timestamp
\* and played duration and also no URI.
C12_DedupLosesNoIdentity ==
    pc = "frame" =>
        /\ \A i \in DOMAIN all_records :
              Cardinality({u \in DOMAIN unique_records :
                              Identity(unique_records[u]) = Identity(all_records[i])}) = 1
        /\ \A i \in DOMAIN all_records :
              NoUri(all_records[i]) /\ ~Kept(all_records[i]) =>
                  \E j \in DOMAIN all_records :
                      /\ j < i
                      /\ all_records[j].ts = all_records[i].ts
                      /\ all_records[j].ms_played = all_records[i].ms_played
                      /\ NoUri(all_records[j])

\* The code points normalize_text is specified to replace.
MappedCodePoints ==
    {LeftSingleQuote, RightSingleQuote, LeftDoubleQuote, RightDoubleQuote,
     DoubleLow9Quote, DoubleHighReversed9Quote}

\* The string (not None) holds one of the six mapped code points.
HasMapped(t) == t # NoneText /\ \E i \in DOMAIN t[1] : t[1][i] \in MappedCodePoints

\* C13: normalize_text is idempotent: for every string and for None,
\* normalize_text(normalize_text(s)) = normalize_text(s); and a string with
\* none of the six mapped characters is returned unchanged.
C13_NormalizeIdempotent ==
    /\ twice # << >> => twice = normalized
    /\ normalized # << >> /\ ~HasMapped(given) => normalized[1] = given

\* normalize_text has been applied twice to a string it had to change.
C13_Witness ==
    /\ twice # << >>
    /\ HasMapped(given)
    /\ normalized[1] # given

\* What the specification says a code point becomes.
Expected(c) ==
    IF c \in {LeftSingleQuote, RightSingleQuote} THEN Apostrophe
    ELSE IF c \in {LeftDoubleQuote, RightDoubleQuote, DoubleLow9Quote,
                   DoubleHighReversed9Quote} THEN QuotationMark
    ELSE c

\* C14: normalize_text replaces U+2018 and U+2019 by the apostrophe and
\* U+201C, U+201D, U+201E, U+201F by the ASCII double quote, leaves every
\* other character unchanged at its position (the length is preserved), and
\* returns None for None.
C14_NormalizeMapsQuotes ==
    normalized # << >> =>
        IF given = NoneText
        THEN normalized[1] = NoneText
        ELSE /\ normalized[1] # NoneText
             /\ Len(normalized[1][1]) = Len(given[1])
             /\ \A i \in DOMAIN given[1] : normalized[1][1][i] = Expected(given[1][i])

\* normalize_text has returned for a string that holds a low-9 double quote
\* and, elsewhere, a character it keeps.
C14_Witness ==
    /\ normalized # << >>
    /\ given # NoneText
    /\ \E i, j \in DOMAIN given[1] :
          /\ given[1][i] = DoubleLow9Quote
          /\ given[1][j] \notin MappedCodePoints \cup {Apostrophe, QuotationMark}
          /\ normalized[1][1][i] = QuotationMark
          /\ normalized[1][1][j] = given[1][j]

\* The free-text fields of a row of the store: track name, artist name, album
\* name, episode name, show name, audiobook title, chapter title.
FreeTextFields ==
    {"master_metadata_track_name", "master_metadata_album_artist_name",
     "master_metadata_album_album_name", "episode_name", "episode_show_name",
     "audiobook_title", "audiobook_chapter_title"}

\* C15: in the persisted store no free-text field of any row holds one of the
\* six curly, low or high quote characters that normalize_text maps.
C15_StoreTextNormalized ==
    parquet.state = "complete" =>
        \A i \in DOMAIN parquet.rows : \A col \in FreeTextFields :
            ~HasMapped(parquet.rows[i][col])

\* A run has persisted the row of an entry whose show name held a mapped
\* quote character.
C15_Witness ==
    /\ Succeeded
    /\ \E i \in DOMAIN parquet.rows :
          /\ parquet.rows[i].src \in EntriesRead
          /\ LET e == EntryAt(parquet.rows[i].src)
             IN  /\ HasMapped(Get(e, "episode_show_name", NoneText))
                 /\ HasMapped(Get(e, "master_metadata_track_name", NoneText))
                        \/ HasMapped(Get(e, "episode_name", NoneText))
          /\ parquet.rows[i].episode_show_name # NoneText

\* from_dict returned a record whose field k holds the mapping's value when
\* the key is present; when it is absent, 0 for ms_played, tsDefault for ts
\* and null for every other field.
FieldFollowsMapping(k, tsDefault) ==
    parsed[1].record[k] =
        IF k \in DOMAIN mapping.val THEN mapping.val[k]
        ELSE IF k = "ms_played" THEN 0
        ELSE IF k = "ts" THEN tsDefault
        ELSE NullValue(k)

\* C16 as the specification states it: from_dict succeeds for every
\* key-value mapping, whatever subset of the recognized keys it holds: an
\* absent ms_played yields 0, every other absent field yields null, a
\* recognized key that is present keeps its value, and unrecognized keys have
\* no effect on the record.
C16_AbsentFieldsAllNull ==
    parsed # << >> /\ mapping.isObject =>
        /\ ~parsed[1].raised
        /\ DOMAIN parsed[1].record = Keys \cup {"src"}
        /\ \A k \in Keys : FieldFollowsMapping(k, None)

\* C16, amended: from_dict succeeds for every key-value mapping, whatever
\* subset of the recognized keys it holds: an absent ms_played yields 0, an
\* absent ts yields the empty string, every other absent field yields null, a
\* recognized key that is present keeps its value, and unrecognized keys have
\* no effect on the record.
C16_FromDictDefaults ==
    parsed # << >> /\ mapping.isObject =>
        /\ ~parsed[1].raised
        /\ DOMAIN parsed[1].record = Keys \cup {"src"}
        /\ \A k \in Keys : FieldFollowsMapping(k, "")

\* from_dict has returned for a mapping without ts, ms_played and track URI
\* that holds a title and a key from_dict does not read.
C16_Witness ==
    /\ parsed # << >>
    /\ mapping.isObject
    /\ {"ts", "ms_played", "spotify_track_uri"} \cap DOMAIN mapping.val = {}
    /\ {"master_metadata_track_name", "unrecognized"} \subseteq DOMAIN mapping.val
    /\ parsed[1].record.master_metadata_track_name # NoneText
    /\ parsed[1].record.ts = ""

\* A top-artists query has returned.
TopNReplied == reply # << >> /\ reply[1].op = "top_artists"

\* The rows of the store the query of the reply ranks: those of its year that
\* have an artist.
Ranked ==
    SelectSeq(FilterYear(parquet.rows, reply[1].year),
              LAMBDA r : r.master_metadata_album_artist_name # NoneText)

\* The groups of the query: the artists of the ranked rows.
Groups == {Ranked[i].master_metadata_album_artist_name : i \in DOMAIN Ranked}

\* The metric of a group: the sum of the played duration of its rows, in ms.
Metric(artist) == SumMs(GroupRows(Ranked, artist))

\* The artist of a row of a reply: column artist of the dashboard's frame,
\* column master_metadata_album_artist_name of the report's.
ArtistOf(g) ==
    IF "artist" \in DOMAIN g THEN g.artist ELSE g.master_metadata_album_artist_name

\* The place in the store of the first row of a group.
FirstRow(artist) ==
    CHOOSE i \in DOMAIN parquet.rows :
        /\ parquet.rows[i].master_metadata_album_artist_name = artist
        /\ \A j \in 1..(i - 1) :
              parquet.rows[j].master_metadata_album_artist_name # artist

\* C17: in every top-N operation, of the dashboard and of the report, a
\* missing, zero or negative n is replaced by the default 10, and an n above
\* the caller's maximum (100 in the dashboard's callback) is clamped to it,
\* before the top groups are selected.
C17_TopNDefaultAndClamp ==
    TopNReplied =>
        LET n == reply[1].n
        IN  /\ n = << >> \/ n[1] <= 0 => reply[1].top_n = 10
            /\ reply[1].via = "dashboard" /\ n # << >> /\ n[1] > MaxTopArtists =>
                   reply[1].top_n = MaxTopArtists
            /\ Len(reply[1].rows) <= reply[1].top_n

\* C18: a top-N query (n >= 1 after C17's replacement) returns exactly
\* min(n, number of groups) groups, those with the largest value of the metric,
\* in descending order of the metric; with n above the number of groups it
\* returns all of them.
C18_TopNLargestDescending ==
    TopNReplied /\ reply[1].top_n >= 1 =>
        LET rows == reply[1].rows
            shown == {ArtistOf(rows[i]) : i \in DOMAIN rows}
        IN  /\ Len(rows) = IF reply[1].top_n < Cardinality(Groups)
                           THEN reply[1].top_n
                           ELSE Cardinality(Groups)
            /\ Cardinality(shown) = Len(rows)
            /\ shown \subseteq Groups
            /\ \A i, j \in DOMAIN rows :
                  i < j => Metric(ArtistOf(rows[i])) >= Metric(ArtistOf(rows[j]))
            /\ \A a \in shown : \A b \in Groups \ shown : Metric(a) >= Metric(b)

\* C19: of two groups of a top-N query with the same metric value, the one
\* whose first record comes earlier in the store is ranked first.
C19_TiesByFirstRecord ==
    TopNReplied =>
        \A i, j \in DOMAIN reply[1].rows :
            /\ i < j
            /\ reply[1].rows[i].total_ms = reply[1].rows[j].total_ms
            => FirstRow(ArtistOf(reply[1].rows[i])) < FirstRow(ArtistOf(reply[1].rows[j]))

\* The search string is empty or holds nothing but spaces.
Blank(q) == q # NoneText /\ \A i \in DOMAIN q[1] : q[1][i] = 32

\* C20: a song or artist search with an empty or whitespace-only query
\* returns an empty result, in the dashboard's search callbacks and in the
\* reports: it matches no record.
C20_BlankSearchMatchesNothing ==
    reply # << >> /\ reply[1].op = "search" /\ Blank(reply[1].query) =>
        reply[1].matches = << >>

\* A substring search has run: the query is a string that is not blank, the
\* search button was clicked.
SubstringSearched ==
    /\ reply # << >>
    /\ reply[1].op = "search"
    /\ reply[1].query # NoneText
    /\ ~Blank(reply[1].query)
    /\ ~reply[1].exact
    /\ ~(reply[1].via = "dashboard" /\ reply[1].kind = "empty")

\* The records of the store in whose searched field the query occurs,
\* ignoring case, as a literal substring.
LiteralMatches ==
    SelectSeq(parquet.rows, LAMBDA r :
        /\ r[reply[1].col] # NoneText
        /\ contains(lower(r[reply[1].col]), lower(reply[1].query)))

\* The play count of a returned group.
PlaysOf(g) ==
    IF "plays" \in DOMAIN g THEN g.plays
    ELSE IF "play_count" \in DOMAIN g THEN g.play_count
    ELSE g.total_plays

RECURSIVE SumPlays(_)
SumPlays(groups) ==
    IF groups = << >> THEN 0 ELSE PlaysOf(Head(groups)) + SumPlays(Tail(groups))

\* C21: a song or artist search matches a record exactly when the query
\* occurs, ignoring case, as a literal substring of the searched field; the
\* play counts of the returned groups add up to the number of matching
\* records; a query that matches nothing returns an empty result without
\* error.
C21_SearchCountsLiteralMatches ==
    SubstringSearched =>
        /\ reply[1].kind # "raised"
        /\ reply[1].matches = LiteralMatches
        /\ SumPlays(reply[1].groups) = Len(LiteralMatches)

\* A query that filters by year has returned: the stats callback or the
\* top-artists report.
YearFiltered == reply # << >> /\ "filtered" \in DOMAIN reply[1]

\* The records of the store whose timestamp lies in calendar year `year`.
RecordsOfYear(year) ==
    SelectSeq(parquet.rows,
              LAMBDA r : r.ts # NaT /\ ToString(Calendar(r.ts).year) = year)

\* C22: filtering by a year returns exactly the records of the store whose
\* timestamp's calendar year equals that year, and the selection 'all' (no
\* year given) returns every record of the store.
C22_YearFilterExact ==
    YearFiltered =>
        reply[1].filtered = IF reply[1].year = "all" THEN parquet.rows
                            ELSE RecordsOfYear(reply[1].year)

\* A year was selected in a store with records of that year, of another year
\* and without timestamp.
C22_Witness ==
    /\ YearFiltered
    /\ reply[1].year = "2024"
    /\ Len(reply[1].filtered) = 1
    /\ Len(parquet.rows) = MaxPlays
    /\ \E i \in DOMAIN parquet.rows : parquet.rows[i].ts = NaT

\* The monthly trend has returned.
TrendReplied == reply # << >> /\ reply[1].op = "trends"

\* The year-month of a timestamp as the number of its month since year 0.
MonthNumber(ts) == 12 * Calendar(ts).year + (Calendar(ts).month - 1)

\* A bucket label is a year-month "YYYY-MM"; the month number it spells.
IsYearMonth(label) ==
    /\ Len(label[1]) = 7
    /\ label[1][5] = 45
    /\ \A i \in {1, 2, 3, 4, 6, 7} : label[1][i] \in 48..57

RECURSIVE Decimal(_)
Decimal(digits) ==
    IF digits = << >> THEN 0
    ELSE 10 * Decimal(SubSeq(digits, 1, Len(digits) - 1))
             + (digits[Len(digits)] - 48)

LabelNumber(label) ==
    12 * Decimal(SubSeq(label[1], 1, 4)) + (Decimal(SubSeq(label[1], 6, 7)) - 1)

\* The records of the store in the month a bucket is labelled with.
RecordsOfBucket(b) ==
    SelectSeq(parquet.rows,
              LAMBDA r : r.ts # NaT /\ IsYearMonth(b.month)
                                    /\ MonthNumber(r.ts) = LabelNumber(b.month))

\* C23: the monthly trend assigns every record of the store, whatever its
\* content type, to the bucket of its timestamp's calendar year-month; each
\* bucket's play count is the number of records of that month and its
\* duration total the sum of their played durations.
C23_TrendCountsEveryRecord ==
    TrendReplied =>
        /\ \A i \in DOMAIN parquet.rows :
              parquet.rows[i].ts # NaT =>
                  \E g \in DOMAIN reply[1].monthly :
                      /\ IsYearMonth(reply[1].monthly[g].month)
                      /\ LabelNumber(reply[1].monthly[g].month)
                             = MonthNumber(parquet.rows[i].ts)
        /\ \A g \in DOMAIN reply[1].monthly :
              IsYearMonth(reply[1].monthly[g].month) =>
                  /\ reply[1].monthly[g].plays
                         = Len(RecordsOfBucket(reply[1].monthly[g]))
                  /\ reply[1].monthly[g].total_ms
                         = SumMs(RecordsOfBucket(reply[1].monthly[g]))

\* C24: the monthly trend returns its buckets in strictly increasing
\* chronological order, and a bucket exists exactly for the year-months that
\* have at least one record.
C24_TrendBucketsChronological ==
    TrendReplied =>
        LET monthly == reply[1].monthly
        IN  /\ \A g \in DOMAIN monthly :
                  /\ IsYearMonth(monthly[g].month)
                  /\ Len(RecordsOfBucket(monthly[g])) >= 1
            /\ \A g, h \in DOMAIN monthly :
                  g < h => LabelNumber(monthly[g].month) < LabelNumber(monthly[h].month)
            /\ \A i \in DOMAIN parquet.rows :
                  parquet.rows[i].ts # NaT =>
                      \E g \in DOMAIN monthly :
                          LabelNumber(monthly[g].month) = MonthNumber(parquet.rows[i].ts)

\* The summary statistics have returned.
StatsReplied == reply # << >> /\ reply[1].op = "stats"

\* The subset the statistics are about: the records of the selected year.
Subset ==
    IF reply[1].year = "all" THEN parquet.rows ELSE RecordsOfYear(reply[1].year)

\* The records of the subset that are classified as songs.
SongsOfSubset == SelectSeq(Subset, LAMBDA r : r.spotify_track_uri # None)

\* C25: unique_tracks is the number of distinct tracks and unique_artists the
\* number of distinct artists among exactly the records of the subset whose
\* track_uri is present.
C25_UniqueCountsAmongSongs ==
    StatsReplied =>
        /\ reply[1].unique_songs =
               Cardinality({SongsOfSubset[i].spotify_track_uri : i \in DOMAIN SongsOfSubset})
        /\ reply[1].unique_artists =
               Cardinality({SongsOfSubset[i].master_metadata_album_artist_name :
                               i \in DOMAIN SongsOfSubset} \ {NoneText})

\* The subset holds podcast records and nothing else.
OnlyPodcasts ==
    /\ Subset # << >>
    /\ \A i \in DOMAIN Subset :
          /\ Subset[i].spotify_episode_uri # None
          /\ Subset[i].spotify_track_uri = None

C27_NoDivisionByZero ==
    reply # << >> /\ "raised" \in DOMAIN reply[1] =>
        reply[1].raised # "ZeroDivisionError"

\* C28: no query of the dashboard changes the loaded store: after any
\* sequence of callbacks the table has the rows and the columns it had right
\* after load_data.
C28_TableAsLoaded ==
    table # << >> =>
        /\ table[1].rows = load_data(parquet).rows
        /\ table[1].columns = load_data(parquet).columns

\* The trend callback has run on a table with rows.
C28_Witness ==
    /\ TrendReplied
    /\ table # << >>
    /\ Len(table[1].rows) = MaxPlays

\* C29: an ingestion run writes the parquet store first, then the CSV
\* mirror, then the SQLite mirror, all from the same table: at every point of
\* a run, also when a write fails midway, neither mirror holds a newer
\* rebuild than the parquet store, and after a run that completes all three
\* hold the same rows in the same order.
C29_MirrorsNeverNewer ==
    /\ built.csv <= built.parquet
    /\ built.sqlite <= built.csv
    /\ built.sqlite <= built.parquet
    /\ pc = "done" =>
          /\ csv = parquet
          /\ sqlite = parquet

\* A run failed while it wrote the CSV file: the SQLite database is still the
\* one an earlier ingestion left.
C29_Witness ==
    /\ pc = "crashed"
    /\ csv.state = "partial"
    /\ parquet.state = "complete"
    /\ sqlite.state = "complete"
    /\ sqlite.rows # << >>
    /\ built.sqlite < built.parquet
    /\ built.csv = built.parquet

\* C30: for the same store, the same year selection and the same n between
\* 1 and 100, the dashboard's top-artists query and the top-artists report
\* return the same artists in the same order, with the same total played
\* duration and the same play count for each.
C30_DashboardAndReportAgree ==
    reply # << >> /\ reply[1].op = "both_top_artists" =>
        /\ Len(reply[1].dashboard) = Len(reply[1].cli)
        /\ \A i \in DOMAIN reply[1].dashboard :
              i \in DOMAIN reply[1].cli =>
                  /\ reply[1].dashboard[i].artist
                         = reply[1].cli[i].master_metadata_album_artist_name
                  /\ reply[1].dashboard[i].total_ms = reply[1].cli[i].total_ms
                  /\ reply[1].dashboard[i].plays = reply[1].cli[i].play_count

=============================================================================
